---- MODULE Spec2Model ----
(***************************************************************************)
(* Verification model of the H-Pulse Mirage policy-optimization engine:    *)
(*   - CharacterEnvironment (app/core/ppo_agent.py)                        *)
(*   - MirageEnv (app/ai/environment.py), PvPArenaEnv (pvp_arena/pvp_env)  *)
(*   - PPOAgent.compute_returns_and_advantages (generalized advantage      *)
(*     estimation)                                                         *)
(*   - the process-wide AGENT_CACHE and the request handlers of            *)
(*     app/routers/simulation_router.py running on worker threads          *)
(*                                                                         *)
(* Real-valued quantities of the environments are kept in thousandths      *)
(* (0.5 is 500), except the four pressures of                              *)
(* CharacterEnvironment.state["environment"], which the random walk moves  *)
(* by amounts of many decimals and which are kept in billionths (0.5 is    *)
(* 500000000); the quantities of the advantage estimator are exact         *)
(* rationals <<numerator, denominator>>.                                   *)
(***************************************************************************)
EXTENDS Integers, Sequences, FiniteSets, TLC

VARIABLES
    \* ---- CharacterEnvironment (one instance, one owner)
    character,      \* self.character: the profile dictionary
    max_steps,      \* self.max_steps
    current_step,   \* self.current_step
    state,          \* self.state
    ret,            \* what the last call on the environment returned or raised
    \* ---- MirageEnv
    m_profile,      \* self.profile
    m_orig,         \* the profile as it was supplied to the constructor
    m_current_step, \* self.current_step
    m_state,        \* self.state (the 18-component observation)
    m_residue,      \* the binary residues of the profile's trust, reputation and anger
    m_state_residue, \* the residues of the trust, reputation and anger self.state was built from
    m_done,         \* self.done
    m_ret,          \* what the last call returned
    \* ---- PvPArenaEnv
    profiles,       \* self.profiles
    turn,           \* self.turn
    states,         \* self.states
    p_steps,        \* steps issued since the last reset (the caller's loop index)
    p_ret,          \* what the last call returned
    \* ---- compute_returns_and_advantages
    gae_in,         \* the arguments of the call
    gae_out,        \* its result
    \* ---- AGENT_CACHE, agents, storage and the request threads
    AGENT_CACHE,    \* character id -> agent (a partial map)
    agents,         \* the PPOAgent objects allocated so far
    storage,        \* character id -> blob written by save_model (a partial map)
    pc,             \* per worker thread: its position in its handler
    req,            \* per worker thread: the request it serves
    loc,            \* per worker thread: the handler's local variables
    served,         \* requests accepted by the server so far
    \* ---- the interaction environment of create_interaction_environment
    other_character, \* env.other_character, the second profile
    i_actor,        \* the agent whose action the last env.step executed (0: none yet)
    i_round,        \* rounds of simulate_agents_interaction completed
    \* ---- the two runs compared for determinism
    rng,            \* the process-wide generator of the random module (seed and draws taken)
    run,            \* which of the two runs is under way (0 none)
    acts,           \* the action indices of the first run
    log1,           \* the rewards of the first run
    final1,         \* the state at the end of the first run
    log2,           \* the rewards of the second run
    \* ---- the save_model / load_model round trip
    rt_agent,       \* the PPOAgent that is saved (round trip of save_model / load_model)
    rt_blob,        \* the checkpoint file written by save_model (<<>> none)
    rt_loaded,      \* the agent load_model returned (<<>> none)
    rt_ret,         \* the last call of the round trip and its error
    \* ---- the numeric health of an agent through train_agent
    n_pc,           \* position of the caller of update_policy (call, update, raised)
    n_params,       \* whether every policy parameter of the agent is finite
    n_batch,        \* whether the returns and advantages of the batch are finite
    n_epoch,        \* epochs of the running update_policy call that are done
    n_episode,      \* update_policy calls that have returned
    n_steps,        \* optimizer steps taken
    n_nonfinite,    \* update passes whose loss or gradients were not finite
    n_blob,         \* the stored model file (none, finite, nonfinite)
    \* ---- the float32 softmax of PPOPolicy.forward
    f_bias,         \* the bias of the actor head's Linear layer, per action (whole units)
    f_weight,       \* the actor head's weight on one saturated feature, per action
    f_probs,        \* the action_probs of the last forward pass (zero or positive, per action)
    f_ret,          \* the last call on the policy and what it returned
    \* ---- the clipped surrogate of update_policy and PPOTrainer.update
    c_ratio,        \* the probability ratio of the sample (thousandths)
    c_adv,          \* the advantage of the sample (thousandths)
    c_clip,         \* clip_ratio (thousandths)
    c_ret,          \* the last surrogate computed (millionths) and by which update
    \* ---- select_action(state, deterministic=True)
    d_feature,      \* the state of the last select_action call (its saturated feature)
    d_probs,        \* the action_probs that call returned, as orders of magnitude
    d_ret,          \* the action and log-probability that call returned
    d_prev,         \* the action of the preceding deterministic call on the same state and parameters (0 none)
    d_calls,        \* calls made
    \* ---- the success probability of _calculate_outcome
    q_character,    \* the personality the probability is computed for
    q_threat,       \* threat_level of the state (billionths)
    q_opportunity,  \* opportunity of the state (billionths)
    q_ret,          \* the action and the success probability compared with the draw
    \* ---- a simulation or interaction request with a scenario
    h_pc,           \* position of the request handler (built, configured, rollout)
    h_kind,         \* simulate or interact
    h_scenario,     \* the keywords of the request's scenario (empty: none)
    \* ---- simulate_duel on a PvPArenaEnv
    u_pc,           \* position of simulate_duel (t1_reset, t1_step, t1_update, t2_reset, t2_step, t2_update, duel, raised)
    u_rounds,       \* the rounds requested
    u_log,          \* the entries of the DuelLogger
    u_error,        \* the exception simulate_duel ended with
    u_episode,      \* the episodes the running train call has completed
    u_torch_checks  \* the installed torch counts the optimizer's in-place writes (1.5 and later)

envVars    == <<character, max_steps, current_step, state, ret>>
mirageVars == <<m_profile, m_orig, m_current_step, m_state, m_residue, m_state_residue, m_done, m_ret>>
pvpVars    == <<profiles, turn, states, p_steps, p_ret>>
gaeVars    == <<gae_in, gae_out>>
regVars    == <<AGENT_CACHE, agents, storage, pc, req, loc, served>>
intVars == <<other_character, i_actor, i_round>>
detVars == <<rng, run, acts, log1, final1, log2>>
rtVars == <<rt_agent, rt_blob, rt_loaded, rt_ret>>
numVars == <<n_pc, n_params, n_batch, n_epoch, n_episode, n_steps, n_nonfinite, n_blob>>
fwdVars == <<f_bias, f_weight, f_probs, f_ret>>
clipVars == <<c_ratio, c_adv, c_clip, c_ret>>
selVars == <<d_feature, d_probs, d_ret, d_prev, d_calls>>
probVars == <<q_character, q_threat, q_opportunity, q_ret>>
scnVars == <<h_pc, h_kind, h_scenario>>
duelVars == <<u_pc, u_rounds, u_log, u_error, u_episode, u_torch_checks>>
vars       == <<envVars, mirageVars, pvpVars, gaeVars, regVars, intVars, detVars, rtVars, numVars, fwdVars, clipVars, selVars, probVars, scnVars, duelVars>>

Max(a, b) == IF a >= b THEN a ELSE b
Min(a, b) == IF a <= b THEN a ELSE b

\* dict.get(key, default)
Get(d, k, default) == IF k \in DOMAIN d THEN d[k] ELSE default

(***************************************************************************)
(* Bounds of the model.                                                    *)
(***************************************************************************)
\* max_steps handed to CharacterEnvironment (steps / steps_per_episode)
MaxSteps == 2
\* how many step calls past max_steps a caller of the environment may issue
StepsOver == 1

(***************************************************************************)
(* Character profiles.  The handlers get theirs from Character.to_profile  *)
(* (models/character.py), which always supplies every key; only the keys   *)
(* inside wuxing may be missing.  The keys jin, mu, shui, huo, tu stand    *)
(* for the five element names of the source; id, name, background and      *)
(* bazi_summary, which no environment reads, are left out.                 *)
(***************************************************************************)
\* Character.to_profile(): personality and attributes are the row's JSON
\* columns
to_profile(personality, attributes) ==
    [O |-> Get(personality, "O", 500),
     C |-> Get(personality, "C", 500),
     E |-> Get(personality, "E", 500),
     A |-> Get(personality, "A", 500),
     N |-> Get(personality, "N", 500),
     wuxing |-> Get(attributes, "wuxing", <<>>),
     emotion_state |-> [joy |-> 250, anger |-> 250, sadness |-> 250, fear |-> 250],
     reputation |-> 500, trust |-> 500, wealth |-> 500, status |-> 500]

\* Rows of the characters table: one with two traits and no attributes, one
\* with every trait and the five elements
CharacterRows ==
    {[personality |-> [A |-> 900, N |-> 100], attributes |-> <<>>],
     [personality |-> [O |-> 700, C |-> 600, E |-> 400, A |-> 500, N |-> 300],
      attributes |-> [wuxing |-> [jin |-> 100, mu |-> 200, shui |-> 200,
                                  huo |-> 300, tu |-> 200]]]}

\* profile = character.to_profile()
Profiles == {to_profile(row.personality, row.attributes) : row \in CharacterRows}

\* sample_profile of ai/simulate.py, the profile MirageEnv is run on there
SampleProfile ==
    [O |-> 700, C |-> 600, E |-> 400, A |-> 500, N |-> 300,
     wuxing |-> [jin |-> 1000, mu |-> 2000, shui |-> 2000, huo |-> 3000, tu |-> 2000],
     emotion_state |-> [joy |-> 500, anger |-> 200, sadness |-> 100, fear |-> 200],
     reputation |-> 400, trust |-> 600, wealth |-> 500, status |-> 500]

(***************************************************************************)
(* CharacterEnvironment                                                    *)
(***************************************************************************)
\* The default action_space of __init__, in source order:
\* 合作 竞争 冒险 保守 说服 威胁 逃避 对抗 礼让 强硬
ActionSpace ==
    <<"cooperate", "compete", "venture", "conserve", "persuade",
      "threaten", "evade", "confront", "yield", "tough">>

\* Python's list[i]: negative indices count from the end, anything outside
\* -len..len-1 raises IndexError.
ListIndex(list, i) ==
    IF 0 <= i /\ i < Len(list) THEN list[i + 1]
    ELSE IF -Len(list) <= i /\ i < 0 THEN list[i + Len(list) + 1]
    ELSE "IndexError"

\* The action indices a caller hands to step: the legal ones and illegal ones
\* on both sides.
ActionInputs ==
    {-Len(ActionSpace) - 1, -Len(ActionSpace), -1} \cup (0 .. Len(ActionSpace))

\* Walks three times as wide as random.uniform(-0.1, 0.1) allows
WalkDraws_Wide ==
    {<<-300000000, 300000000, -300000000>>, <<300000000, -300000000, 300000000>>}

\* Values of random.random(), in thousandths
SuccessDraws == {99, 500, 900}
\* Values of the three random.uniform(-0.1, 0.1) draws of one _update_state
\* call, in billionths.  The draws are chosen so that no pressure lands on a
\* threshold of _calculate_outcome (0.5, 0.7) by a sum that binary floating
\* point rounds to the other side of it (0.8 - 0.1 is 0.7000000000000001 in
\* the code).
WalkDraws ==
    {<<-90000000, 100000000, -100000000>>, <<100000000, -90000000, 100000000>>}

\* Scenario descriptions, as the set of keyword groups configure_scenario
\* finds in the text: one description that names every group.
Scenarios == {{"danger", "opportunity", "urgent", "social", "anger", "sadness"}}

\* reset(): the state dictionary built from self.character
ResetState(chr) ==
    [health |-> 1000,
     energy |-> 1000,
     wealth |-> Get(chr, "wealth", 500),
     reputation |-> Get(chr, "reputation", 500),
     happiness |-> 500,
     stress |-> 100,
     trust |-> Get(chr, "trust", 500),
     emotions |->
        [joy     |-> Get(Get(chr, "emotion_state", <<>>), "joy", 250),
         anger   |-> Get(Get(chr, "emotion_state", <<>>), "anger", 250),
         sadness |-> Get(Get(chr, "emotion_state", <<>>), "sadness", 250),
         fear    |-> Get(Get(chr, "emotion_state", <<>>), "fear", 250)],
     environment |->
        [threat_level |-> 100000000, opportunity |-> 300000000,
         social_pressure |-> 200000000, time_pressure |-> 100000000],
     history |-> <<>>]

\* get_state_vector(): 21 components, the four pressures in billionths like
\* the state they are read from; the last one, current_step / max_steps, is
\* kept as the pair <<current_step, max_steps>>.
get_state_vector(chr, st, step, maxs) ==
    <<st.health, st.energy, st.wealth, st.reputation, st.happiness,
      st.stress, st.trust,
      Get(chr, "O", 500), Get(chr, "C", 500), Get(chr, "E", 500),
      Get(chr, "A", 500), Get(chr, "N", 500),
      st.emotions.joy, st.emotions.anger, st.emotions.sadness, st.emotions.fear,
      st.environment.threat_level, st.environment.opportunity,
      st.environment.social_pressure, st.environment.time_pressure,
      <<step, maxs>> >>

\* A probability left as computed
ClampProb_None(p) == p

\* success_prob = max(0.1, min(0.9, success_prob)) (line 540)
ClampProb(p) == Max(100, Min(900, p))

\* _calculate_outcome, first half: the success probability before the draw
SuccessProb(action, chr, st) ==
    LET o == Get(chr, "O", 500)
        c == Get(chr, "C", 500)
        e == Get(chr, "E", 500)
        a == Get(chr, "A", 500)
        n == Get(chr, "N", 500)
        threat == st.environment.threat_level
        opportunity == st.environment.opportunity
        p == CASE action = "cooperate" ->
                    500 + (2 * a - n) \div 10
                        + (IF opportunity > 500000000 THEN 100 ELSE -100)
               [] action = "compete" ->
                    500 + (2 * c - a) \div 10
                        - (IF threat > 500000000 THEN 100 ELSE 0)
               [] action = "venture" ->
                    500 + (3 * o - 2 * c) \div 10
                        + (IF opportunity > 700000000 THEN 200 ELSE -100)
               [] action = "conserve" ->
                    500 + (2 * c - o) \div 10
                        + (IF threat > 500000000 THEN 100 ELSE -100)
               [] action = "persuade" -> 500 + (3 * e + a) \div 10
               [] action = "threaten" -> 500 + (2 * (1000 - a) - e) \div 10
               [] action = "evade" ->
                    500 + (3 * n - c) \div 10
                        + (IF threat > 700000000 THEN 200 ELSE 0)
               [] action = "confront" -> 500 + (2 * (1000 - a) + c) \div 10
               [] action = "yield" -> 500 + (3 * a) \div 10
               [] action = "tough" -> 500 + (2 * (1000 - a) + n) \div 10
               [] OTHER -> 500
    IN  ClampProb(p)

\* The outcome text and base reward of each action and polarity.  An outcome
\* is its label and the keywords, among those _update_state searches for,
\* that the source text contains:
\*   fail 失败, miss 错失, loss 损失, success 成功, win 获胜, payoff 回报,
\*   counter 反击, conflict 冲突, refuse 拒绝, danger 危险
OutcomeTable(action, success) ==
    CASE action = "cooperate" ->
            IF success THEN [label |-> "cooperate+", tags |-> {"success"}, reward |-> 1500]
                       ELSE [label |-> "cooperate-", tags |-> {"refuse"}, reward |-> -500]
      [] action = "compete" ->
            IF success THEN [label |-> "compete+", tags |-> {"win"}, reward |-> 2000]
                       ELSE [label |-> "compete-", tags |-> {"fail"}, reward |-> -1000]
      [] action = "venture" ->
            IF success THEN [label |-> "venture+", tags |-> {"payoff"}, reward |-> 2500]
                       ELSE [label |-> "venture-", tags |-> {"fail", "loss"}, reward |-> -2000]
      [] action = "conserve" ->
            IF success THEN [label |-> "conserve+", tags |-> {}, reward |-> 500]
                       ELSE [label |-> "conserve-", tags |-> {"miss"}, reward |-> -500]
      [] action = "persuade" ->
            IF success THEN [label |-> "persuade+", tags |-> {"success"}, reward |-> 1000]
                       ELSE [label |-> "persuade-", tags |-> {"fail"}, reward |-> -500]
      [] action = "threaten" ->
            IF success THEN [label |-> "threaten+", tags |-> {}, reward |-> 1000]
                       ELSE [label |-> "threaten-", tags |-> {"fail"}, reward |-> -1500]
      [] action = "evade" ->
            IF success THEN [label |-> "evade+", tags |-> {"success", "danger"}, reward |-> 500]
                       ELSE [label |-> "evade-", tags |-> {}, reward |-> -1000]
      [] action = "confront" ->
            IF success THEN [label |-> "confront+", tags |-> {"success"}, reward |-> 1500]
                       ELSE [label |-> "confront-", tags |-> {"fail", "counter"}, reward |-> -1500]
      [] action = "yield" ->
            IF success THEN [label |-> "yield+", tags |-> {}, reward |-> 500]
                       ELSE [label |-> "yield-", tags |-> {}, reward |-> -500]
      [] action = "tough" ->
            IF success THEN [label |-> "tough+", tags |-> {}, reward |-> 1000]
                       ELSE [label |-> "tough-", tags |-> {"conflict"}, reward |-> -1000]

\* _calculate_outcome(action): draw is the value of random.random()
calculate_outcome(action, chr, st, draw) ==
    LET o == Get(chr, "O", 500)
        a == Get(chr, "A", 500)
        success == draw < SuccessProb(action, chr, st)
        row == OutcomeTable(action, success)
        adjust == CASE action = "venture" -> (o - 500) \div 2
                    [] action \in {"cooperate", "yield"} -> (a - 500) \div 2
                    [] action \in {"compete", "tough"} -> ((1000 - a) - 500) \div 2
                    [] OTHER -> 0
    IN  [outcome |-> [label |-> row.label, tags |-> row.tags],
         reward |-> row.reward + adjust]

\* A health that is lowered without a floor
HealthAfterConflict_NoFloor(health) == health - 100

\* self.state["health"] = max(0.1, self.state["health"] - 0.1) (line 663)
HealthAfterConflict(health) == Max(100, health - 100)

\* _update_state(action, outcome): the assignments in source order; walk holds
\* the three random.uniform(-0.1, 0.1) draws.
update_state(st, action, outcome, walk) ==
    LET has(k) == k \in outcome.tags
        bad == has("fail") \/ has("miss") \/ has("loss")
        good == has("success") \/ has("win") \/ has("payoff")
        energy1 == IF bad THEN Max(100, st.energy - 100) ELSE st.energy
        happy1 == IF bad THEN Max(100, st.happiness - 100) ELSE st.happiness
        stress1 == IF bad THEN Min(1000, st.stress + 100) ELSE st.stress
        happy2 == IF good THEN Min(1000, happy1 + 100) ELSE happy1
        rep2 == IF good THEN Min(1000, st.reputation + 50) ELSE st.reputation
        stress2 == IF good THEN Max(0, stress1 - 50) ELSE stress1
        coop == action = "cooperate" /\ has("success")
        trust3 == IF coop THEN Min(1000, st.trust + 100) ELSE st.trust
        rep3 == IF coop THEN Min(1000, rep2 + 100) ELSE rep2
        wealth4 == IF action = "venture" /\ has("payoff")
                       THEN Min(1000, st.wealth + 200)
                   ELSE IF action = "venture" /\ has("loss")
                       THEN Max(0, st.wealth - 150)
                   ELSE st.wealth
        health5 == IF has("counter") \/ has("conflict")
                       THEN HealthAfterConflict(st.health) ELSE st.health
        joy6 == IF good THEN Min(1000, st.emotions.joy + 100) ELSE st.emotions.joy
        fear6 == IF good THEN Max(0, st.emotions.fear - 50) ELSE st.emotions.fear
        sad7 == IF has("fail") \/ has("refuse")
                    THEN Min(1000, st.emotions.sadness + 100) ELSE st.emotions.sadness
        joy7 == IF has("fail") \/ has("refuse") THEN Max(0, joy6 - 50) ELSE joy6
        anger8 == IF has("conflict") \/ has("counter")
                      THEN Min(1000, st.emotions.anger + 150) ELSE st.emotions.anger
        fear9 == IF has("danger") THEN Min(1000, fear6 + 150) ELSE fear6
        env == st.environment
    IN  [st EXCEPT
            !.energy = energy1,
            !.happiness = happy2,
            !.stress = stress2,
            !.reputation = rep3,
            !.trust = trust3,
            !.wealth = wealth4,
            !.health = health5,
            !.emotions = [joy |-> joy7, anger |-> anger8,
                          sadness |-> sad7, fear |-> fear9],
            !.environment =
                [threat_level |-> Max(0, Min(1000000000, env.threat_level + walk[1])),
                 opportunity |-> Max(0, Min(1000000000, env.opportunity + walk[2])),
                 social_pressure |->
                     Max(0, Min(1000000000, env.social_pressure + walk[3])),
                 time_pressure |-> Min(1000000000, env.time_pressure + 50000000)]]

\* configure_scenario(env, scenario): the assignments to env.state
configure_scenario(st, scn) ==
    LET e1 == IF "danger" \in scn
                  THEN [st EXCEPT !.environment.threat_level = 800000000,
                                  !.emotions.fear = 600]
                  ELSE st
        e2 == IF "opportunity" \in scn
                  THEN [e1 EXCEPT !.environment.opportunity = 800000000,
                                  !.emotions.joy = 600]
                  ELSE e1
        e3 == IF "urgent" \in scn
                  THEN [e2 EXCEPT !.environment.time_pressure = 800000000] ELSE e2
        e4 == IF "social" \in scn
                  THEN [e3 EXCEPT !.environment.social_pressure = 700000000] ELSE e3
        e5 == IF "anger" \in scn THEN [e4 EXCEPT !.emotions.anger = 700] ELSE e4
        e6 == IF "sadness" \in scn THEN [e5 EXCEPT !.emotions.sadness = 700] ELSE e5
    IN  e6

\* What a call leaves behind for its caller: the operation and its argument,
\* the exception raised ("none" when it returned) and the returned values.
NoRet == [op |-> "reset", arg |-> 0, error |-> "none", reward |-> 0,
          done |-> FALSE, action |-> "", outcome |-> ""]

envOthers == <<mirageVars, pvpVars, gaeVars, regVars, intVars, detVars, rtVars, numVars, fwdVars, clipVars, selVars, probVars, scnVars, duelVars>>

\* CharacterEnvironment(character_profile, max_steps=...): __init__ ends in
\* reset(), so a new environment is one on which reset was the last call
EnvInit ==
    /\ character \in Profiles
    /\ max_steps = MaxSteps
    /\ current_step = 0
    /\ state = ResetState(character)
    /\ ret = NoRet

\* configure_scenario(env, scenario), called by the handlers right after the
\* environment is constructed, that is when the last call on it was the reset()
\* that ends __init__
ConfigureScenario(scn) ==
    /\ ret.op = "reset"
    /\ current_step = 0
    /\ state' = configure_scenario(state, scn)
    /\ ret' = [NoRet EXCEPT !.op = "configure"]
    /\ UNCHANGED <<character, max_steps, current_step>>
    /\ UNCHANGED envOthers

\* A reset that rebuilds the state and leaves the step counter as it is
reset_KeepStep(chr, step0, st) == [current_step |-> step0, state |-> ResetState(chr)]

\* reset() on an environment whose counter is step0 and whose state is st:
\* self.current_step = 0 (line 423) and self.state = {...}, a new dictionary
\* built from self.character (lines 426-452); nothing of st is kept
reset(chr, step0, st) == [current_step |-> 0, state |-> ResetState(chr)]

\* reset()
Reset ==
    /\ \E r \in {reset(character, current_step, state)} :
          /\ current_step' = r.current_step
          /\ state' = r.state
    /\ ret' = NoRet
    /\ UNCHANGED <<character, max_steps>>
    /\ UNCHANGED envOthers

\* step(action_idx), lines 467-487, for an index the list accepts (negative
\* indices wrap, as list indexing does): the new current_step and state and
\* the returned reward, done and info
step(chr, maxs, step0, st, idx, action, draw, walk) ==
    LET res == calculate_outcome(action, chr, st, draw)
        upd == update_state(st, action, res.outcome, walk)
        nst == [upd EXCEPT !.history = Append(@,
                    [step |-> step0 + 1, action |-> action,
                     outcome |-> res.outcome.label, reward |-> res.reward])]
    IN  [current_step |-> step0 + 1,
         state |-> nst,
         ret |-> [op |-> "step", arg |-> idx, error |-> "none",
                  reward |-> res.reward,
                  done |-> (step0 + 1 >= maxs \/ nst.health <= 0),
                  action |-> action, outcome |-> res.outcome.label]]

StepOk(idx, draw, walk) ==
    /\ ListIndex(ActionSpace, idx) # "IndexError"
    /\ current_step < max_steps + StepsOver
    /\ \E r \in {step(character, max_steps, current_step, state, idx,
                       ListIndex(ActionSpace, idx), draw, walk)} :
           /\ current_step' = r.current_step
           /\ state' = r.state
           /\ ret' = r.ret
    /\ UNCHANGED <<character, max_steps>>
    /\ UNCHANGED envOthers

\* step(action_idx) with an index the list rejects: self.action_space[action_idx]
\* raises IndexError before anything is assigned
StepIndexError(idx) ==
    /\ ListIndex(ActionSpace, idx) = "IndexError"
    /\ ret' = [NoRet EXCEPT !.op = "step", !.arg = idx, !.error = "IndexError"]
    /\ UNCHANGED <<character, max_steps, current_step, state>>
    /\ UNCHANGED envOthers

(***************************************************************************)
(* app/ai/utils.py: the state vector and reward of MirageEnv, PvPArenaEnv  *)
(***************************************************************************)
\* build_state(profile): 18 components.  The wuxing keys 金 木 水 火 土 are
\* written jin mu shui huo tu.
build_state(p) ==
    <<Get(p, "O", 500), Get(p, "C", 500), Get(p, "E", 500),
      Get(p, "A", 500), Get(p, "N", 500),
      Get(Get(p, "wuxing", <<>>), "jin", 200),
      Get(Get(p, "wuxing", <<>>), "mu", 200),
      Get(Get(p, "wuxing", <<>>), "shui", 200),
      Get(Get(p, "wuxing", <<>>), "huo", 200),
      Get(Get(p, "wuxing", <<>>), "tu", 200),
      Get(Get(p, "emotion_state", <<>>), "joy", 250),
      Get(Get(p, "emotion_state", <<>>), "anger", 250),
      Get(Get(p, "emotion_state", <<>>), "sadness", 250),
      Get(Get(p, "emotion_state", <<>>), "fear", 250),
      Get(p, "reputation", 500), Get(p, "trust", 500),
      Get(p, "wealth", 500), Get(p, "status", 500)>>

\* compute_reward(profile, state, action); state[i] of the source is st[i + 1]
compute_reward(p, st, action) ==
    CASE action = 0 -> st[11] * 2 + st[12]
      [] action = 1 -> 500 - st[12]
      [] action = 2 -> st[13] - 100
      [] action = 3 -> -200
      [] action = 4 -> st[14] - 300
      [] action = 5 -> (st[11] + st[12]) \div 2 - 200
      [] OTHER -> 0

\* d[k] += delta on a dictionary raises KeyError when the key is missing
HasKey(d, k) == k \in DOMAIN d

AddTo(d, k, delta) == [d EXCEPT ![k] = @ + delta]

\* d["emotion_state"][k] += delta
HasEmotion(d, k) ==
    IF "emotion_state" \in DOMAIN d THEN k \in DOMAIN d.emotion_state ELSE FALSE

AddToEmotion(d, k, delta) == [d EXCEPT !.emotion_state[k] = @ + delta]

\* How far a profile has moved from another one, summed over the fields the
\* environments write (bounds the exploration, see MaxDrift).
Dist(x, y) == IF x >= y THEN x - y ELSE y - x

Drift(p, q) ==
    Dist(Get(p, "trust", 0), Get(q, "trust", 0))
    + Dist(Get(p, "reputation", 0), Get(q, "reputation", 0))
    + Dist(Get(Get(p, "emotion_state", <<>>), "anger", 0),
           Get(Get(q, "emotion_state", <<>>), "anger", 0))
    + Dist(Get(Get(p, "emotion_state", <<>>), "joy", 0),
           Get(Get(q, "emotion_state", <<>>), "joy", 0))

\* The environments are explored while the profiles they write stay within
\* MaxDrift tenths (in total) of the profiles supplied.
MaxDrift == 2

(***************************************************************************)
(* MirageEnv                                                               *)
(***************************************************************************)
\* self.max_steps = 100 in __init__
MirageMaxSteps == 100

\* The actions a caller hands to step: 0 and 1, which write the profile, 3,
\* one of the four of Discrete(6) that leave it alone, and 6, outside it
MirageActionInputs == {0, 1, 3, 6}

\* MirageEnv is explored while its profile stays within MirageDrift tenths
\* (in total) of the profile supplied: six deceptions take trust from 0.5
\* to below 0
MirageDrift == 9

\* The profiles MirageEnv is constructed on: run_simulation(character_profile)
\* of ai/simulate.py
MirageProfiles == Profiles \cup {SampleProfile}

mirageOthers == <<envVars, pvpVars, gaeVars, regVars, intVars, detVars, rtVars, numVars, fwdVars, clipVars, selVars, probVars, scnVars, duelVars>>

\* _update_profile(action): the profile after the assignments that ran, and
\* the KeyError of the first one whose key is missing
update_profile(p, action) ==
    IF action = 1 THEN
        IF ~HasKey(p, "trust") THEN [profile |-> p, error |-> "KeyError"]
        ELSE LET p1 == AddTo(p, "trust", -100)
             IN  IF ~HasEmotion(p1, "anger")
                    THEN [profile |-> p1, error |-> "KeyError"]
                    ELSE [profile |-> AddToEmotion(p1, "anger", 50),
                          error |-> "none"]
    ELSE IF action = 0 THEN
        IF ~HasKey(p, "trust") THEN [profile |-> p, error |-> "KeyError"]
        ELSE LET p1 == AddTo(p, "trust", 50)
             IN  IF ~HasKey(p1, "reputation")
                    THEN [profile |-> p1, error |-> "KeyError"]
                    ELSE [profile |-> AddTo(p1, "reputation", 50),
                          error |-> "none"]
    ELSE [profile |-> p, error |-> "none"]

(***************************************************************************)
(* The profile's values are Python floats, IEEE doubles, and trust -= 0.1  *)
(* and += 0.05 are double operations: each result is rounded to 53 bits.   *)
(* A float x is kept as its value in thousandths, k, and its binary        *)
(* residue e, an integer:  x = k / 1000 + e / (1000 * 2^57).  Every double *)
(* of magnitude 2^-5 or more is a multiple of 2^-57, and so is every sum   *)
(* of such doubles, so e is exact for the literals 0.05 and upwards and    *)
(* for what the steps make of them, up to a magnitude of 4.                *)
(***************************************************************************)
RECURSIVE Pow2Mod(_, _)
\* 2^n modulo m, twelve bits at a time
Pow2Mod(n, m) ==
    IF n <= 12 THEN (2 ^ n) % m ELSE (4096 * Pow2Mod(n - 12, m)) % m

Sign(x) == IF x > 0 THEN 1 ELSE IF x < 0 THEN -1 ELSE 0

\* The spacing of the doubles around a magnitude of a thousandths (below:
\* the magnitude lies just under a), in units of 2^-57: 2^-52 times the
\* power of two at or under the magnitude
FloatUlp(a, below) ==
    LET under(bound) == a < bound \/ (a = bound /\ below)
    IN  IF a <= 62 THEN 1
        ELSE IF under(125) THEN 2
        ELSE IF under(250) THEN 4
        ELSE IF under(500) THEN 8
        ELSE IF under(1000) THEN 16
        ELSE IF under(2000) THEN 32
        ELSE 64

\* Rounding of the exact number with thousandths k and residue e to the
\* nearest double, ties to the even one: the residue of that double.  The
\* number times 1000 * 2^57 is the integer k * 2^57 + e, which is rounded to
\* a multiple of 1000 * ulp; its remainder is computed modulo 2000 * ulp
FloatRound(k, e) ==
    LET sg   == IF k # 0 THEN Sign(k) ELSE Sign(e)
        ka   == sg * k
        ea   == sg * e
        u    == FloatUlp(ka, ea < 0)
        t    == (ka * Pow2Mod(57, 2000 * u) + ea) % (2000 * u)
        low  == t % (1000 * u)
        down == 2 * low < 1000 * u \/ (2 * low = 1000 * u /\ t < 1000 * u)
    IN  sg * (IF down THEN ea - low ELSE ea + 1000 * u - low)

\* The residue of the double a decimal literal of k thousandths denotes
FloatLiteral(k) == FloatRound(k, 0)

\* x += d (d > 0) and x -= -d (d < 0) on the float of thousandths k and
\* residue e, for a literal of |d| thousandths: the residue of the result,
\* whose thousandths are k + d
FloatAdd(k, e, d) ==
    FloatRound(k + d, e + Sign(d) * FloatLiteral(Sign(d) * d))

\* The residues of the three values _update_profile writes, for a profile
\* as supplied (a missing key: the default build_state reads instead)
profile_residue(p) ==
    [trust |-> FloatLiteral(Get(p, "trust", 500)),
     reputation |-> FloatLiteral(Get(p, "reputation", 500)),
     anger |-> FloatLiteral(Get(Get(p, "emotion_state", <<>>), "anger", 250))]

\* _update_profile(action) on the residues: the same assignments as
\* update_profile, up to the first one whose key is missing
update_residue(p, res, action) ==
    IF action = 1 THEN
        IF ~HasKey(p, "trust") THEN res
        ELSE LET res1 == [res EXCEPT !.trust = FloatAdd(p.trust, @, -100)]
             IN  IF ~HasEmotion(p, "anger") THEN res1
                 ELSE [res1 EXCEPT !.anger = FloatAdd(p.emotion_state.anger, @, 50)]
    ELSE IF action = 0 THEN
        IF ~HasKey(p, "trust") THEN res
        ELSE LET res1 == [res EXCEPT !.trust = FloatAdd(p.trust, @, 50)]
             IN  IF ~HasKey(p, "reputation") THEN res1
                 ELSE [res1 EXCEPT !.reputation = FloatAdd(p.reputation, @, 50)]
    ELSE res

\* The residue of component i of the observation build_state makes of a
\* profile with the residues res: anger (state[11]), reputation (state[14])
\* and trust (state[15]) are the values _update_profile writes, the other
\* components are the floats the profile was supplied with; st[i] of the
\* model is state[i - 1] of the source
state_residue(st, res, i) ==
    IF i = 12 THEN res.anger
    ELSE IF i = 15 THEN res.reputation
    ELSE IF i = 16 THEN res.trust
    ELSE FloatLiteral(st[i])

\* observation_space = spaces.Box(low=0, high=1, shape=(18,)): membership of
\* the float32 vector np.array(state, dtype=np.float32) casts from the values
\* of thousandths st and residues res.  The cast keeps the sign of a value,
\* so that a value of 0 thousandths lies within the box when its residue is
\* not negative; and it rounds a value within 2^-25 of 1 to 1, so that a
\* value of 1000 thousandths lies within the box whatever its residue
observation_space_contains(st, res) ==
    /\ Len(st) = 18
    /\ \A i \in 1..Len(st) :
          /\ st[i] > 0 \/ (st[i] = 0 /\ state_residue(st, res, i) >= 0)
          /\ st[i] <= 1000

MirageNoRet == [op |-> "reset", arg |-> 0, error |-> "none", reward |-> 0,
                done |-> FALSE]

\* MirageEnv(character_profile)
MirageInit ==
    /\ m_profile \in MirageProfiles
    /\ m_orig = m_profile
    /\ m_current_step = 0
    /\ m_state = build_state(m_profile)
    /\ m_residue = profile_residue(m_profile)
    /\ m_state_residue = m_residue
    /\ m_done = FALSE
    /\ m_ret = [MirageNoRet EXCEPT !.op = "init"]

\* MirageEnv.step(action)
MirageStep(action) ==
    /\ m_current_step < MirageMaxSteps + StepsOver
    /\ \E u \in {update_profile(m_profile, action)} :
          /\ Drift(u.profile, m_orig) <= 100 * MirageDrift
          /\ m_current_step' = m_current_step + 1
          /\ m_profile' = u.profile
          /\ m_residue' = update_residue(m_profile, m_residue, action)
          /\ IF u.error = "none"
                THEN /\ m_state' = build_state(u.profile)
                     /\ m_state_residue' = m_residue'
                     /\ m_done' = (m_done \/ m_current_step + 1 >= MirageMaxSteps)
                     /\ m_ret' = [op |-> "step", arg |-> action, error |-> "none",
                                  reward |-> compute_reward(m_profile, m_state, action),
                                  done |-> m_done']
                ELSE /\ UNCHANGED <<m_state, m_state_residue, m_done>>
                     /\ m_ret' = [MirageNoRet EXCEPT !.op = "step", !.arg = action,
                                                     !.error = u.error]
    /\ UNCHANGED m_orig
    /\ UNCHANGED mirageOthers

\* MirageEnv.reset()
MirageReset ==
    /\ m_current_step' = 0
    /\ m_done' = FALSE
    /\ m_state' = build_state(m_profile)
    /\ m_state_residue' = m_residue
    /\ m_ret' = MirageNoRet
    /\ UNCHANGED <<m_profile, m_orig, m_residue>>
    /\ UNCHANGED mirageOthers

(***************************************************************************)
(* PvPArenaEnv                                                             *)
(***************************************************************************)
\* The duel has no step counter and no horizon of its own; its callers cap an
\* episode at 100 steps (PPOTrainer.train: for _ in range(100)).
PvPHorizon == 100

PvPActionInputs == -1 .. 5

pvpOthers == <<envVars, mirageVars, gaeVars, regVars, intVars, detVars, rtVars, numVars, fwdVars, clipVars, selVars, probVars, scnVars, duelVars>>

\* The pairs of profiles handed to PvPArenaEnv
ProfilePairs == Profiles \X Profiles

\* The writes of step to the two profiles (lines 23-28), in source order: the
\* profiles after the assignments that ran, and the KeyError of the first one
\* whose key is missing.  ps is indexed from 1: actor_id + 1.
pvp_update(ps, actor, action) ==
    LET other == 3 - actor
    IN  IF action = 1 THEN
            IF ~HasEmotion(ps[actor], "anger")
                THEN [profiles |-> ps, error |-> "KeyError"]
            ELSE LET ps1 == [ps EXCEPT ![actor] = AddToEmotion(@, "anger", 100)]
                 IN  IF ~HasEmotion(ps1[other], "anger")
                        THEN [profiles |-> ps1, error |-> "KeyError"]
                        ELSE [profiles |->
                                [ps1 EXCEPT ![other] = AddToEmotion(@, "anger", 50)],
                              error |-> "none"]
        ELSE IF action = 0 THEN
            IF ~HasEmotion(ps[actor], "joy")
                THEN [profiles |-> ps, error |-> "KeyError"]
            ELSE LET ps1 == [ps EXCEPT ![actor] = AddToEmotion(@, "joy", 50)]
                 IN  IF ~HasKey(ps1[other], "trust")
                        THEN [profiles |-> ps1, error |-> "KeyError"]
                        ELSE [profiles |->
                                [ps1 EXCEPT ![other] = AddTo(@, "trust", 30)],
                              error |-> "none"]
        ELSE [profiles |-> ps, error |-> "none"]

\* PvPArenaEnv(profile_1, profile_2)
PvPInit ==
    /\ profiles \in ProfilePairs
    /\ turn = 0
    /\ states = <<build_state(profiles[1]), build_state(profiles[2])>>
    /\ p_steps = 0
    /\ p_ret = [MirageNoRet EXCEPT !.op = "init"]

\* The start profiles of a pair (the bound on the exploration is relative to
\* the lowest values the fields can have had: the fields only grow)
PvPDriftOk(ps) ==
    \E start \in ProfilePairs :
        /\ \A i \in 1..2 : DOMAIN ps[i] = DOMAIN start[i]
        /\ Drift(ps[1], start[1]) + Drift(ps[2], start[2]) <= 100 * MaxDrift

\* PvPArenaEnv.step(action)
PvPStep(action) ==
    /\ p_steps < PvPHorizon + StepsOver
    /\ \E u \in {pvp_update(profiles, turn + 1, action)} :
          /\ PvPDriftOk(u.profiles)
          /\ profiles' = u.profiles
          /\ p_steps' = p_steps + 1
          /\ IF u.error = "none"
                THEN /\ states' = <<build_state(u.profiles[1]),
                                    build_state(u.profiles[2])>>
                     /\ turn' = 1 - turn
                     /\ p_ret' = [op |-> "step", arg |-> action, error |-> "none",
                                  reward |-> compute_reward(profiles[turn + 1],
                                                            states[turn + 1], action),
                                  done |-> FALSE]
                ELSE /\ UNCHANGED <<states, turn>>
                     /\ p_ret' = [MirageNoRet EXCEPT !.op = "step", !.arg = action,
                                                     !.error = u.error]
    /\ UNCHANGED pvpOthers

\* PvPArenaEnv.reset()
PvPReset ==
    /\ turn' = 0
    /\ states' = <<build_state(profiles[1]), build_state(profiles[2])>>
    /\ p_steps' = 0
    /\ p_ret' = MirageNoRet
    /\ UNCHANGED profiles
    /\ UNCHANGED pvpOthers

(***************************************************************************)
(* PPOAgent.compute_returns_and_advantages                                 *)
(*                                                                         *)
(* Numbers are exact rationals <<n, d>>, d > 0, in lowest terms.           *)
(***************************************************************************)
RECURSIVE Gcd(_, _)
Gcd(a, b) == IF b = 0 THEN a ELSE Gcd(b, a % b)

Abs(x) == IF x >= 0 THEN x ELSE -x

Rat(n, d) ==
    LET g == Gcd(Abs(n), Abs(d))
        sgn == IF d < 0 THEN -1 ELSE 1
    IN  <<(sgn * n) \div g, (sgn * d) \div g>>

RInt(n) == <<n, 1>>
RAdd(x, y) == Rat(x[1] * y[2] + y[1] * x[2], x[2] * y[2])
RSub(x, y) == Rat(x[1] * y[2] - y[1] * x[2], x[2] * y[2])
RMul(x, y) == Rat(x[1] * y[1], x[2] * y[2])

\* Longest trajectory handed to the estimator
MaxLen == 3

\* self.gamma of an agent built with the default gamma=0.99
DefaultGamma == Rat(99, 100)

\* The arguments explored: gamma is <<>> for None and <<g>> for a number
RewardInputs == {RInt(-1), RInt(0), RInt(1)}
ValueInputs == {RInt(0), RInt(1)}
GammaInputs == {<<>>, <<RInt(0)>>, <<Rat(1, 2)>>, <<RInt(1)>>}
LambdaInputs == {Rat(1, 2), RInt(1)}

\* 1.0 - dones[i] for a bool
NonTerminal(done) == IF done THEN RInt(0) ELSE RInt(1)

\* gamma = gamma or self.gamma: None and 0 are both falsy
EffectiveGamma(gamma, self_gamma) ==
    IF gamma = <<>> THEN self_gamma
    ELSE IF gamma[1][1] = 0 THEN self_gamma
    ELSE gamma[1]

\* The loop of lines 260-276 from index t (1-based) to the last, run backward:
\* gae after iteration t and the lists built by insert(0, ...)
RECURSIVE gae_loop(_, _, _, _, _, _, _)
gae_loop(t, rewards, values, next_value, dones, gamma, gae_lambda) ==
    IF t > Len(rewards)
        THEN [gae |-> RInt(0), returns |-> <<>>, advantages |-> <<>>]
    ELSE
        LET rest == gae_loop(t + 1, rewards, values, next_value, dones,
                             gamma, gae_lambda)
            next_non_terminal ==
                IF t = Len(rewards) THEN NonTerminal(dones[Len(dones)])
                                    ELSE NonTerminal(dones[t + 1])
            delta == RSub(RAdd(rewards[t],
                               RMul(RMul(gamma, next_value), next_non_terminal)),
                          values[t])
            gae == RAdd(delta,
                        RMul(RMul(RMul(gamma, gae_lambda), next_non_terminal),
                             rest.gae))
        IN  [gae |-> gae,
             returns |-> <<RAdd(gae, values[t])>> \o rest.returns,
             advantages |-> <<gae>> \o rest.advantages]

compute_returns_and_advantages(self_gamma, rewards, values, next_value, dones, gamma, gae_lambda) ==
    LET r == gae_loop(1, rewards, values, next_value, dones,
                      EffectiveGamma(gamma, self_gamma), gae_lambda)
    IN  [returns |-> r.returns, advantages |-> r.advantages]

gaeOthers == <<envVars, mirageVars, pvpVars, regVars, intVars, detVars, rtVars, numVars, fwdVars, clipVars, selVars, probVars, scnVars, duelVars>>

\* The arguments of one call: rewards, values and dones of equal length
GaeInit ==
    /\ \E n \in 0 .. MaxLen :
          gae_in \in [rewards : [1..n -> RewardInputs],
                      values : [1..n -> ValueInputs],
                      dones : [1..n -> BOOLEAN],
                      next_value : ValueInputs,
                      gamma : GammaInputs,
                      gae_lambda : LambdaInputs]
    /\ gae_out = <<>>

\* agent.compute_returns_and_advantages(rewards, values, next_value, dones,
\*                                      gamma, gae_lambda)
GaeCall ==
    /\ gae_out = <<>>
    /\ gae_out' = <<compute_returns_and_advantages(DefaultGamma,
                        gae_in.rewards, gae_in.values, gae_in.next_value,
                        gae_in.dones, gae_in.gamma, gae_in.gae_lambda)>>
    /\ UNCHANGED gae_in
    /\ UNCHANGED gaeOthers

(***************************************************************************)
(* app/routers/simulation_router.py: AGENT_CACHE, get_agent_for_character, *)
(* run_simulation, train_agent, simulate_agents_interaction, and           *)
(* PPOAgent.load_model.  train_agent ends with NameError at its first use  *)
(* of torch (line 337), which the module does not import: no handler       *)
(* reaches update_policy or save_model.                                    *)
(*                                                                         *)
(* The handlers are plain def endpoints: the server runs each request on a *)
(* worker thread, and the threads share AGENT_CACHE, the agents in it and  *)
(* the model files.  A thread's pc names the statement it is at; a pc in   *)
(* -ing form is a forward pass in progress.  What a handler does to        *)
(* objects only it owns (its environment, its trajectory lists) is folded  *)
(* into the neighbouring step.                                             *)
(***************************************************************************)
\* Worker threads and character ids
NThreads == 2
NChars == 2
\* Requests accepted in one run
MaxRequests == 2
\* Parameter tensors of a policy (each with its optimizer state)
NTensors == 2
\* steps / steps_per_episode / interaction_rounds of a request
RolloutSteps == 2
\* epochs of an update_policy call (10 by default)
UpdateEpochs == 2

Threads == 1 .. NThreads
CharIds == 1 .. NChars
Kinds == {"simulate", "train", "interact"}

regOthers == <<envVars, mirageVars, pvpVars, gaeVars, intVars, detVars, rtVars, numVars, fwdVars, clipVars, selVars, probVars, scnVars, duelVars>>

NoReq == [kind |-> "none", cid |-> 0, cid2 |-> 0]
NoLoc == [slot |-> 1, agent |-> 0, agent2 |-> 0, new |-> 0, path |-> "",
          i |-> 0, reset |-> FALSE, estep |-> 0, done |-> FALSE, records |-> 0]

\* max_steps of CharacterEnvironment when the caller gives none (line 329)
DefaultMaxSteps == 100

\* max_steps of the environment a handler builds: the requested steps for
\* simulate (line 63) and train (line 123), the default for interact (line 502)
EnvMaxSteps(kind) ==
    IF kind = "interact" THEN DefaultMaxSteps ELSE RolloutSteps

\* env.reset() as the rollout sees it: the step counter is 0 again; the
\* handler starts its record lists empty (lines 255-259, 319-329, 555-560)
EnvReset(l) ==
    [l EXCEPT !.reset = TRUE, !.estep = 0, !.done = FALSE, !.records = 0, !.i = 0]

\* env.step(action) as the rollout sees it, and the record the handler
\* appends: done is current_step >= max_steps or health <= 0 (line 485), and
\* health never goes below 0.1 (line 658)
EnvStep(l, maxs) ==
    [l EXCEPT !.estep = @ + 1, !.done = (l.estep + 1 >= maxs),
              !.records = @ + 1]

\* A loop that runs one iteration too many and ignores done
LoopGoesOn_OneMore(i, n, done) == i <= n

\* Whether a rollout loop enters its next iteration: the range is not
\* exhausted and done was not returned (lines 261-263, 330, 356-357, 576, 596)
LoopGoesOn(i, n, done) == i < n /\ ~done

\* The dimensions of the environment a handler builds: CharacterEnvironment
\* has 21 state components; the default action space has 10 actions, the
\* interaction environment 12.
EnvDims(kind) ==
    [state_dim |-> 21, action_dim |-> IF kind = "interact" THEN 12 ELSE 10]

\* An agent made with the dimensions of the single-character environment,
\* whatever the caller's environment
NewAgent_FixedDims(id, cid, dims) ==
    [cid |-> cid, origin |-> "init",
     state_dim |-> 21, action_dim |-> 10,
     params |-> [i \in 1..NTensors |-> <<id, 0>>],
     opt |-> [i \in 1..NTensors |-> 0]]

\* PPOAgent(state_dim, action_dim): randomly initialised parameters, written
\* as <<seed, version>> per tensor (the seed is the new object's identity), and
\* an optimizer that has made no step
NewAgent(id, cid, dims) ==
    [cid |-> cid, origin |-> "init",
     state_dim |-> dims.state_dim, action_dim |-> dims.action_dim,
     params |-> [i \in 1..NTensors |-> <<id, 0>>],
     opt |-> [i \in 1..NTensors |-> 0]]

\* PPOAgent.load_model(path): a new agent with the blob's dimensions,
\* parameters and optimizer state
load_model(cid, blob) ==
    [cid |-> cid, origin |-> "load",
     state_dim |-> blob.state_dim, action_dim |-> blob.action_dim,
     params |-> blob.params, opt |-> blob.opt]

\* A lookup that never finds the key
CacheHit_Never(cache, cid) == FALSE

\* character_id in AGENT_CACHE (line 223)
CacheHit(cache, cid) == cid \in DOMAIN cache

\* dict[key] = value
Put(d, k, v) == [x \in DOMAIN d \cup {k} |-> IF x = k THEN v ELSE d[x]]

\* The key of the get_agent_for_character call a thread is in
Key(t) == IF loc[t].slot = 1 THEN req[t].cid ELSE req[t].cid2

\* Where a handler goes when get_agent_for_character returns
AfterGet(t) ==
    CASE req[t].kind = "simulate" -> "sim_select"
      [] req[t].kind = "train" -> "tr_select"
      [] req[t].kind = "interact" ->
            IF loc[t].slot = 1 THEN "get_check" ELSE "int_select1"

\* The locals after get_agent_for_character returned agent a by path p
Got(t, a, p) ==
    IF loc[t].slot = 1
        THEN IF req[t].kind = "interact"
                THEN [loc[t] EXCEPT !.agent = a, !.path = p, !.slot = 2]
                ELSE EnvReset([loc[t] EXCEPT !.agent = a, !.path = p])
        ELSE EnvReset([loc[t] EXCEPT !.agent2 = a, !.path = p])

\* A model file put into the storage directory before this process started
\* (a checkpoint of PPOAgent.save_model): the parameters of another agent
\* (seed 0) after one optimizer step
SavedBlob ==
    [state_dim |-> 21, action_dim |-> 10,
     params |-> [i \in 1..NTensors |-> <<0, 1>>],
     opt |-> [i \in 1..NTensors |-> 1]]

\* The process starts with an empty AGENT_CACHE (line 21); the storage
\* directory is empty or holds the model file of character 1
RegInit ==
    /\ AGENT_CACHE = <<>>
    /\ agents = <<>>
    /\ storage \in {<<>>, Put(<<>>, 1, SavedBlob)}
    /\ pc = [t \in Threads |-> "idle"]
    /\ req = [t \in Threads |-> NoReq]
    /\ loc = [t \in Threads |-> NoLoc]
    /\ served = 0

\* A request arrives and a worker thread starts its handler: the character is
\* looked up, the environment is built, get_agent_for_character is entered.
StartRequest(t, kind, cid, cid2) ==
    /\ pc[t] = "idle"
    /\ served < MaxRequests
    /\ served' = served + 1
    /\ req' = [req EXCEPT ![t] = [kind |-> kind, cid |-> cid,
                                  cid2 |-> IF kind = "interact" THEN cid2 ELSE 0]]
    /\ loc' = [loc EXCEPT ![t] = NoLoc]
    /\ pc' = [pc EXCEPT ![t] = "get_check"]
    /\ UNCHANGED <<AGENT_CACHE, agents, storage>>
    /\ UNCHANGED regOthers

\* ---- get_agent_for_character (lines 209-239), one statement per step

\* if character_id in AGENT_CACHE:
GetCheck(t) ==
    /\ pc[t] = "get_check"
    /\ pc' = [pc EXCEPT ![t] = IF CacheHit(AGENT_CACHE, Key(t))
                                  THEN "get_hit" ELSE "get_exists"]
    /\ UNCHANGED <<AGENT_CACHE, agents, storage, req, loc, served>>
    /\ UNCHANGED regOthers

\* return AGENT_CACHE[character_id]
GetHit(t) ==
    /\ pc[t] = "get_hit"
    /\ loc' = [loc EXCEPT ![t] = Got(t, AGENT_CACHE[Key(t)], "hit")]
    /\ pc' = [pc EXCEPT ![t] = AfterGet(t)]
    /\ UNCHANGED <<AGENT_CACHE, agents, storage, req, served>>
    /\ UNCHANGED regOthers

\* if os.path.exists(model_path):
GetExists(t) ==
    /\ pc[t] = "get_exists"
    /\ pc' = [pc EXCEPT ![t] = IF Key(t) \in DOMAIN storage
                                  THEN "get_load" ELSE "get_new"]
    /\ UNCHANGED <<AGENT_CACHE, agents, storage, req, loc, served>>
    /\ UNCHANGED regOthers

\* agent = PPOAgent.load_model(model_path)
GetLoad(t) ==
    /\ pc[t] = "get_load"
    /\ agents' = Append(agents, load_model(Key(t), storage[Key(t)]))
    /\ loc' = [loc EXCEPT ![t].new = Len(agents) + 1]
    /\ pc' = [pc EXCEPT ![t] = "get_put"]
    /\ UNCHANGED <<AGENT_CACHE, storage, req, served>>
    /\ UNCHANGED regOthers

\* agent = PPOAgent(state_dim=..., action_dim=...) with the dimensions of the
\* environment of the calling handler
GetNew(t) ==
    /\ pc[t] = "get_new"
    /\ agents' = Append(agents,
                        NewAgent(Len(agents) + 1, Key(t), EnvDims(req[t].kind)))
    /\ loc' = [loc EXCEPT ![t].new = Len(agents) + 1]
    /\ pc' = [pc EXCEPT ![t] = "get_put"]
    /\ UNCHANGED <<AGENT_CACHE, storage, req, served>>
    /\ UNCHANGED regOthers

\* AGENT_CACHE[character_id] = agent; return agent
GetPut(t) ==
    /\ pc[t] = "get_put"
    /\ AGENT_CACHE' = Put(AGENT_CACHE, Key(t), loc[t].new)
    /\ loc' = [loc EXCEPT ![t] = Got(t, loc[t].new,
                                     agents[loc[t].new].origin)]
    /\ pc' = [pc EXCEPT ![t] = AfterGet(t)]
    /\ UNCHANGED <<agents, storage, req, served>>
    /\ UNCHANGED regOthers

\* The handler returns its response (or its exception) and the thread is free
Finish(t) ==
    /\ pc' = [pc EXCEPT ![t] = "idle"]
    /\ req' = [req EXCEPT ![t] = NoReq]
    /\ loc' = [loc EXCEPT ![t] = NoLoc]

\* ---- run_simulation (lines 241-292)

\* action, _ = agent.select_action(state): the forward pass begins
SimSelect(t) ==
    /\ pc[t] = "sim_select"
    /\ pc' = [pc EXCEPT ![t] = "sim_selecting"]
    /\ UNCHANGED <<AGENT_CACHE, agents, storage, req, loc, served>>
    /\ UNCHANGED regOthers

\* select_action returns; env.step(action); the loop goes on for `steps`
\* steps (the environment's horizon is `steps`), then the handler answers
SimSelected(t) ==
    /\ pc[t] = "sim_selecting"
    /\ \E l \in {EnvStep(loc[t], EnvMaxSteps(req[t].kind))} :
          IF LoopGoesOn(l.i + 1, RolloutSteps, l.done)
             THEN /\ loc' = [loc EXCEPT ![t] = [l EXCEPT !.i = @ + 1]]
                  /\ pc' = [pc EXCEPT ![t] = "sim_select"]
                  /\ UNCHANGED req
             ELSE Finish(t)
    /\ UNCHANGED <<AGENT_CACHE, agents, storage, served>>
    /\ UNCHANGED regOthers

\* ---- train_agent (lines 294-397)

\* agent.select_action(state): the forward pass begins
TrSelect(t) ==
    /\ pc[t] = "tr_select"
    /\ pc' = [pc EXCEPT ![t] = "tr_selecting"]
    /\ UNCHANGED <<AGENT_CACHE, agents, storage, req, loc, served>>
    /\ UNCHANGED regOthers

\* select_action returns; `with torch.no_grad():` (line 337) raises NameError,
\* torch being no name of the module (imports at lines 1-16): the request
\* fails before env.step, update_policy, save_model and the cache write of
\* line 388
TrSelected(t) ==
    /\ pc[t] = "tr_selecting"
    /\ Finish(t)
    /\ UNCHANGED <<AGENT_CACHE, agents, storage, served>>
    /\ UNCHANGED regOthers

\* ---- simulate_agents_interaction (lines 541-635)

\* agent1.select_action(state): the forward pass begins
IntSelect1(t) ==
    /\ pc[t] = "int_select1"
    /\ pc' = [pc EXCEPT ![t] = "int_selecting1"]
    /\ UNCHANGED <<AGENT_CACHE, agents, storage, req, loc, served>>
    /\ UNCHANGED regOthers

\* select_action returns; env.step(action1); agent2's turn
IntSelected1(t) ==
    /\ pc[t] = "int_selecting1"
    /\ \E l \in {EnvStep(loc[t], EnvMaxSteps(req[t].kind))} :
          IF l.done
             THEN Finish(t)
             ELSE /\ loc' = [loc EXCEPT ![t] = l]
                  /\ pc' = [pc EXCEPT ![t] = "int_select2"]
                  /\ UNCHANGED req
    /\ UNCHANGED <<AGENT_CACHE, agents, storage, served>>
    /\ UNCHANGED regOthers

\* agent2.select_action(state_for_char2): the forward pass begins
IntSelect2(t) ==
    /\ pc[t] = "int_select2"
    /\ pc' = [pc EXCEPT ![t] = "int_selecting2"]
    /\ UNCHANGED <<AGENT_CACHE, agents, storage, req, loc, served>>
    /\ UNCHANGED regOthers

\* select_action returns; env.step(action2); the next round, or the answer
IntSelected2(t) ==
    /\ pc[t] = "int_selecting2"
    /\ \E l \in {EnvStep(loc[t], EnvMaxSteps(req[t].kind))} :
          IF LoopGoesOn(l.i + 1, RolloutSteps, l.done)
             THEN /\ loc' = [loc EXCEPT ![t] = [l EXCEPT !.i = @ + 1]]
                  /\ pc' = [pc EXCEPT ![t] = "int_select1"]
                  /\ UNCHANGED req
             ELSE Finish(t)
    /\ UNCHANGED <<AGENT_CACHE, agents, storage, served>>
    /\ UNCHANGED regOthers

\* env.step raises inside a handler (an action index outside the
\* environment's action list, or an interaction action that
\* _calculate_outcome has no branch for): the request fails
StepRaises(t) ==
    /\ \/ /\ pc[t] = "sim_selecting"
          /\ agents[loc[t].agent].action_dim > EnvDims(req[t].kind).action_dim
       \/ pc[t] \in {"int_selecting1", "int_selecting2"}
    /\ Finish(t)
    /\ UNCHANGED <<AGENT_CACHE, agents, storage, served>>
    /\ UNCHANGED regOthers

\* A server that handles one request at a time accepts a request only when
\* no handler is running
SeqStartRequest(t, kind, cid, cid2) ==
    /\ \A u \in Threads : pc[u] = "idle"
    /\ StartRequest(t, kind, cid, cid2)

(***************************************************************************)
(* app/routers/simulation_router.py: create_interaction_environment and    *)
(* simulate_agents_interaction.  The environment is a CharacterEnvironment *)
(* built from the first profile, with twelve interaction actions and a     *)
(* step wrapped by interaction_step; the two agents act in turn on it.     *)
(***************************************************************************)
\* interaction_actions (lines 494-498)
InteractionActions ==
    <<"cooperate", "compete", "compromise", "avoid", "share", "withhold",
      "attack", "defend", "persuade", "refuse", "help", "ignore">>

\* The indices the agents hand to env.step: select_action returns an index
\* below the agent's action_dim, which is 12 or 10
InteractionInputs == 0 .. (Len(InteractionActions) - 1)

intOthers == <<mirageVars, pvpVars, gaeVars, regVars, detVars, rtVars, numVars, fwdVars, clipVars, selVars, probVars, scnVars, duelVars>>

\* The actions _calculate_outcome assigns an outcome for (lines 548-618)
HasOutcome(action) == \E i \in 1..Len(ActionSpace) : ActionSpace[i] = action

\* interaction_step(action_idx) (lines 514-534) around CharacterEnvironment.step:
\* for an action without an outcome branch, step raises UnboundLocalError at
\* `return outcome, reward`, after current_step was incremented; otherwise
\* the reward is scaled by the other character's agreeableness for the
\* cooperative actions, the outcome text gets a suffix (response), and the
\* state gets the key other_response
interaction_step(chr, other, maxs, step0, st, idx, draw, walk) ==
    LET action == InteractionActions[idx + 1]
    IN  IF ~HasOutcome(action)
           THEN [current_step |-> step0 + 1,
                 state |-> st,
                 ret |-> [op |-> "step", arg |-> idx,
                          error |-> "UnboundLocalError", reward |-> 0,
                          done |-> FALSE, action |-> action, outcome |-> "",
                          response |-> ""]]
           ELSE LET r == step(chr, maxs, step0, st, idx, action, draw, walk)
                    a == Get(other, "A", 500)
                    warm == action \in {"cooperate", "share", "help"} /\ a > 600
                    cold == action \in {"cooperate", "share", "help"}
                                /\ ~(a > 600) /\ a < 300
                    reward == IF warm THEN (r.ret.reward * 12) \div 10
                              ELSE IF cold THEN (r.ret.reward * 8) \div 10
                              ELSE r.ret.reward
                IN  [current_step |-> r.current_step,
                     state |-> Put(r.state, "other_response", action),
                     ret |-> [op |-> "step", arg |-> idx, error |-> "none",
                              reward |-> reward, done |-> r.ret.done,
                              action |-> action, outcome |-> r.ret.outcome,
                              response |-> IF warm THEN "warm"
                                           ELSE IF cold THEN "cold" ELSE ""]]

\* The handler has built the environment from profile1 (line 502), set
\* env.other_character = profile2 (line 505), and simulate_agents_interaction
\* has called env.reset() (line 555)
InteractInit ==
    /\ character \in Profiles
    /\ other_character \in Profiles
    /\ max_steps = DefaultMaxSteps
    /\ current_step = 0
    /\ state = ResetState(character)
    /\ ret = NoRet
    /\ i_actor = 0
    /\ i_round = 0

\* The agent whose turn it is in the round (lines 562-596)
NextActor == IF i_actor = 1 THEN 2 ELSE 1

\* One turn of a round: the agent selects idx and env.step(idx) runs.  The
\* loop ends after interaction_rounds rounds, on done, or with the exception
InteractStep(idx, draw, walk) ==
    /\ i_round < RolloutSteps
    /\ ret.error = "none"
    /\ ~ret.done
    /\ \E r \in {interaction_step(character, other_character, max_steps,
                                   current_step, state, idx, draw, walk)} :
          /\ current_step' = r.current_step
          /\ state' = r.state
          /\ ret' = r.ret
    /\ i_actor' = NextActor
    /\ i_round' = IF NextActor = 2 THEN i_round + 1 ELSE i_round
    /\ UNCHANGED <<character, max_steps, other_character>>
    /\ UNCHANGED intOthers

\* The next interaction request: a new environment for its two profiles
InteractAgain(p1, p2) ==
    /\ i_actor # 0
    /\ character' = p1
    /\ other_character' = p2
    /\ current_step' = 0
    /\ state' = ResetState(p1)
    /\ ret' = NoRet
    /\ i_actor' = 0
    /\ i_round' = 0
    /\ UNCHANGED max_steps
    /\ UNCHANGED intOthers


(***************************************************************************)
(* The process-wide generator of the random module, which                  *)
(* CharacterEnvironment draws from (ppo_agent.py lines 7, 543, 682-686),   *)
(* and two runs of one environment from reset under the same seed.         *)
(***************************************************************************)
MaxSeed == 3
Seeds == 1..MaxSeed

detOthers == <<mirageVars, pvpVars, gaeVars, regVars, intVars, rtVars, numVars, fwdVars, clipVars, selVars, probVars, scnVars, duelVars>>

\* The generator's output is a fixed function of the seed and of the number
\* of draws taken since seeding.  Row s holds the first values random.random()
\* returns after random.seed(s), with their first eight decimals, in units of
\* 1e-8 (0.13436424... is 13436424)
TwisterTable ==
    <<<<13436424, 84743373, 76377461, 25506902, 49543508, 44949106,
        65159297, 78872335, 9385958, 2834747, 83576510, 43276706,
        76228008, 210605, 44538719, 72154003, 22876222, 94527069,
        90142745, 3058998, 2544586, 54141247, 93914916, 38120423>>,
      <<95603427, 94782748, 5655136, 8487199, 83549887, 73596998,
        66973040, 30813645, 60594416, 60680173, 58120401, 15838287,
        43066964, 39353182, 72301208, 99481956, 94939547, 54417704,
        44485418, 26824074, 3592432, 2744485, 46489386, 31846512>>,
      <<23796462, 54422922, 36995516, 60392003, 62572030, 6552885,
        1316799, 83746908, 25935401, 23433096, 99564483, 47026350,
        83646145, 47635320, 63906814, 15061642, 63486065, 86804530,
        52318121, 74125185, 67141147, 6403143, 75823024, 59109958>>,
      <<23604808, 10316603, 39605824, 15497227, 6651509, 40159101,
        91795504, 80045235, 76516260, 22192817, 53668000, 27668264,
        17266452, 10618329, 21440043, 92747563, 82892004, 80665234,
        80044783, 19343561, 30984995, 62697560, 73189470, 85464835>>,
      <<62290169, 74178698, 79519356, 94245028, 73989857, 92232499,
        2900522, 46562265, 94335671, 64897455, 90090049, 11320596,
        46906904, 24657283, 54376085, 57394118, 1311418, 21672980,
        27948236, 91634537, 76572545, 15960421, 79714699, 13876741>>>>

Twister(seed, pos) == TwisterTable[seed][pos + 1]

\* random.seed(s): the generator restarts the sequence of s
random_seed(g, s) == [seed |-> s, pos |-> 0]

\* random.random() as the k-th draw from generator g, in units of 1e-8
random_random(g, k) == Twister(g.seed, g.pos + k)

\* random.uniform(a, b) == a + (b - a) * random(), for a and b in whole
\* tenths (-0.1 is -1): the value in billionths, which holds it exactly
random_uniform(g, k, a, b) == a * 100000000 + (b - a) * random_random(g, k)

\* One step takes four draws: random.random() at line 543, then the three
\* random.uniform(-0.1, 0.1) at lines 682-686
DrawsPerStep == 4

\* step(idx) on the draws of g.  random.random() < success_prob compares the
\* draw with a whole number of thousandths, which the first three decimals
\* of the draw decide
seeded_step(g, chr, maxs, step0, st, idx) ==
    step(chr, maxs, step0, st, idx, ListIndex(ActionSpace, idx),
         random_random(g, 0) \div 100000,
         <<random_uniform(g, 1, -1, 1), random_uniform(g, 2, -1, 1),
           random_uniform(g, 3, -1, 1)>>)

\* random.seed(s); env = CharacterEnvironment(profile); env.reset()
DetInit ==
    /\ character \in Profiles
    /\ max_steps = MaxSteps
    /\ current_step = 0
    /\ state = ResetState(character)
    /\ ret = NoRet
    /\ rng \in {random_seed([seed |-> 0, pos |-> 0], s) : s \in Seeds}
    /\ run = 1
    /\ acts = <<>>
    /\ log1 = <<>>
    /\ final1 = <<>>
    /\ log2 = <<>>

\* A step of the first run, with an action index the caller chooses
DetStep(idx) ==
    /\ run = 1
    /\ ~ret.done
    /\ ListIndex(ActionSpace, idx) # "IndexError"
    /\ \E r \in {seeded_step(rng, character, max_steps, current_step, state, idx)} :
          /\ current_step' = r.current_step
          /\ state' = r.state
          /\ ret' = r.ret
          /\ log1' = Append(log1, r.ret.reward)
    /\ acts' = Append(acts, idx)
    /\ rng' = [rng EXCEPT !.pos = @ + DrawsPerStep]
    /\ UNCHANGED <<character, max_steps, run, final1, log2>>
    /\ UNCHANGED detOthers

\* The first run ends; random.seed(same seed); env.reset() on the environment
\* the first run has used
DetSecondRun ==
    /\ run = 1
    /\ acts # <<>>
    /\ final1' = state
    /\ rng' = random_seed(rng, rng.seed)
    /\ \E r \in {reset(character, current_step, state)} :
          /\ current_step' = r.current_step
          /\ state' = r.state
    /\ ret' = NoRet
    /\ run' = 2
    /\ UNCHANGED <<character, max_steps, acts, log1, log2>>
    /\ UNCHANGED detOthers

\* A step of the second run: the same action as in the first run
DetReplay ==
    /\ run = 2
    /\ Len(log2) < Len(acts)
    /\ \E r \in {seeded_step(rng, character, max_steps, current_step, state,
                              acts[Len(log2) + 1])} :
          /\ current_step' = r.current_step
          /\ state' = r.state
          /\ ret' = r.ret
          /\ log2' = Append(log2, r.ret.reward)
    /\ rng' = [rng EXCEPT !.pos = @ + DrawsPerStep]
    /\ UNCHANGED <<character, max_steps, run, acts, log1, final1>>
    /\ UNCHANGED detOthers


(***************************************************************************)
(* app/core/ppo_agent.py: PPOAgent.__init__, save_model and load_model as  *)
(* a round trip on one agent.  A tensor is written by its shape and a      *)
(* version of its contents; reals are in millionths.                       *)
(***************************************************************************)
MaxUpdates == 2

\* The defaults of PPOAgent.__init__ (lines 100-101)
DefaultHiddenDim == 64
DefaultLr == 300

StateDims == {18, 21}
ActionDims == {6, 10, 12}
HiddenDims == {32, DefaultHiddenDim}
LearningRates == {DefaultLr, 1000}

rtOthers == <<envVars, mirageVars, pvpVars, gaeVars, regVars, intVars, detVars, numVars, fwdVars, clipVars, selVars, probVars, scnVars, duelVars>>

\* PPOPolicy.__init__ (lines 30-47): the shapes of the weight tensors of
\* shared_layers, actor_head and critic_head
PolicyShapes(state_dim, action_dim, hidden_dim) ==
    [shared0 |-> <<hidden_dim, state_dim>>,
     shared2 |-> <<hidden_dim, hidden_dim>>,
     actor |-> <<action_dim, hidden_dim>>,
     critic |-> <<1, hidden_dim>>]

\* PPOAgent(state_dim, action_dim, hidden_dim, lr) (lines 122-134): a policy
\* with initial contents (version 0) and an Adam optimizer without steps
PPOAgent(state_dim, action_dim, hidden_dim, lr) ==
    [state_dim |-> state_dim, action_dim |-> action_dim,
     policy |-> [shapes |-> PolicyShapes(state_dim, action_dim, hidden_dim),
                 version |-> 0],
     optimizer |-> [lr |-> lr, steps |-> 0]]

\* save_model (lines 286-291): the four entries of the checkpoint
save_model(agent) ==
    [policy_state_dict |-> agent.policy,
     optimizer_state_dict |-> agent.optimizer,
     state_dim |-> agent.state_dim,
     action_dim |-> agent.action_dim]

\* Module.load_state_dict: a tensor whose shape differs from the module's
\* is a size mismatch, and the call raises RuntimeError
load_state_dict(policy, sd) == sd.shapes = policy.shapes

\* load_model (lines 305-313): cls(state_dim, action_dim) with every other
\* argument at its default, then the two load_state_dict calls
load_checkpoint(checkpoint) ==
    LET agent == PPOAgent(checkpoint.state_dim, checkpoint.action_dim,
                          DefaultHiddenDim, DefaultLr)
    IN  IF load_state_dict(agent.policy, checkpoint.policy_state_dict)
           THEN [error |-> "none",
                 agent |-> [agent EXCEPT
                               !.policy = checkpoint.policy_state_dict,
                               !.optimizer = checkpoint.optimizer_state_dict]]
           ELSE [error |-> "RuntimeError", agent |-> <<>>]

\* The action distribution of an agent for a probe state is a function of
\* the policy's tensors and the probe
ActionDistribution(agent, probe) == <<agent.policy, probe>>

RtInit ==
    /\ rt_agent \in {PPOAgent(s, a, h, lr) : s \in StateDims, a \in ActionDims,
                                             h \in HiddenDims, lr \in LearningRates}
    /\ rt_blob = <<>>
    /\ rt_loaded = <<>>
    /\ rt_ret = [op |-> "init", error |-> "none"]

\* update_policy: optimizer.step() changes the tensors and the Adam state
RtUpdate ==
    /\ rt_ret.op \in {"init", "update"}
    /\ rt_agent.optimizer.steps < MaxUpdates
    /\ rt_agent' = [rt_agent EXCEPT !.policy.version = @ + 1,
                                    !.optimizer.steps = @ + 1]
    /\ rt_ret' = [op |-> "update", error |-> "none"]
    /\ UNCHANGED <<rt_blob, rt_loaded>>
    /\ UNCHANGED rtOthers

\* agent.save_model(path)
RtSave ==
    /\ rt_ret.op \in {"init", "update"}
    /\ rt_blob' = save_model(rt_agent)
    /\ rt_ret' = [op |-> "save", error |-> "none"]
    /\ UNCHANGED <<rt_agent, rt_loaded>>
    /\ UNCHANGED rtOthers

\* PPOAgent.load_model(path) of the file just written
RtLoad ==
    /\ rt_ret.op = "save"
    /\ \E r \in {load_checkpoint(rt_blob)} :
          /\ rt_loaded' = r.agent
          /\ rt_ret' = [op |-> "load", error |-> r.error]
    /\ UNCHANGED <<rt_agent, rt_blob>>
    /\ UNCHANGED rtOthers


(***************************************************************************)
(* PPOAgent.update_policy (ppo_agent.py lines 149-229) and save_model      *)
(* (lines 280-292) on one agent, with respect to non-finite float32 values *)
(* (inf, nan): a caller makes update_policy calls and saves the agent      *)
(* between them.                                                           *)
(***************************************************************************)
\* update_policy calls made on the agent
NumEpisodes == 5

numOthers == <<envVars, mirageVars, pvpVars, gaeVars, regVars, intVars, detVars, rtVars, fwdVars, clipVars, selVars, probVars, scnVars, duelVars>>

\* The forward pass on the batch (lines 191-196): with a non-finite
\* parameter the probabilities are nan and Categorical(action_probs)
\* rejects them with ValueError
ForwardRaises(params_finite) == ~params_finite

\* loss.backward(); clip_grad_norm_; optimizer.step() (lines 214-217), taken
\* whatever the loss.  clip_grad_norm_ multiplies every gradient by
\* max_grad_norm / (total_norm + 1e-6): finite gradients stay finite (they
\* become 0 when the norm overflows), inf and nan become nan, and Adam writes
\* nan into the parameters
optimizer_step_Finite(params_finite, grads_finite) == params_finite /\ grads_finite

\* A freshly initialised agent; the model file is absent or holds finite
\* parameters
NumInit ==
    /\ n_pc = "call"
    /\ n_params = TRUE
    /\ n_batch = TRUE
    /\ n_epoch = 0
    /\ n_episode = 0
    /\ n_steps = 0
    /\ n_nonfinite = 0
    /\ n_blob \in {"none", "finite"}

\* update_policy(states, actions, old_log_probs, returns, advantages, epochs)
\* is called: the float32 tensors of the returns and advantages (lines
\* 172-176) are finite or not
NumCall(batch_finite) ==
    /\ n_pc = "call"
    /\ n_episode < NumEpisodes
    /\ n_pc' = "update"
    /\ n_batch' = batch_finite
    /\ n_epoch' = 0
    /\ UNCHANGED <<n_params, n_episode, n_steps, n_nonfinite, n_blob>>
    /\ UNCHANGED numOthers

\* One epoch of update_policy (lines 189-227).  The loss and the gradients
\* of a non-finite batch (a return or advantage that is inf or nan) are not
\* finite.  The loss of a finite batch may still overflow float32: in the
\* value loss (a return of 1e20: the squared error is inf, its gradient is
\* finite) or in the ratio (an old log-probability of -100: exp gives inf and
\* so does its gradient).  A finite loss may have non-finite gradients: when
\* the ratio is inf and the advantage positive, torch.min takes the finite
\* clipped term, and the backward pass of exp multiplies a zero gradient by
\* the inf ratio, which is nan.  After the last epoch the call returns its
\* statistics
NumEpoch(loss_finite, grads_finite) ==
    /\ n_pc = "update"
    /\ n_batch \/ ~loss_finite
    /\ n_batch \/ ~grads_finite
    /\ IF ForwardRaises(n_params)
          THEN /\ n_pc' = "raised"
               /\ UNCHANGED <<n_params, n_epoch, n_episode, n_steps, n_nonfinite>>
          ELSE /\ n_params' = optimizer_step_Finite(n_params, grads_finite)
               /\ n_steps' = n_steps + 1
               /\ n_nonfinite' = IF loss_finite /\ grads_finite
                                    THEN n_nonfinite ELSE n_nonfinite + 1
               /\ n_epoch' = IF n_epoch + 1 < UpdateEpochs THEN n_epoch + 1 ELSE 0
               /\ n_episode' = IF n_epoch + 1 = UpdateEpochs
                                  THEN n_episode + 1 ELSE n_episode
               /\ n_pc' = IF n_epoch + 1 < UpdateEpochs THEN "update" ELSE "call"
    /\ UNCHANGED <<n_batch, n_blob>>
    /\ UNCHANGED numOthers

\* agent.save_model(path) between two calls (lines 287-292), whatever the
\* parameters
NumSave ==
    /\ n_pc = "call"
    /\ n_blob' = IF n_params THEN "finite" ELSE "nonfinite"
    /\ UNCHANGED <<n_pc, n_params, n_batch, n_epoch, n_episode, n_steps, n_nonfinite>>
    /\ UNCHANGED numOthers


(***************************************************************************)
(* PPOPolicy.forward and get_action (ppo_agent.py lines 38-91): the actor  *)
(* head is Linear followed by nn.Softmax(dim=-1) in float32, with no floor *)
(* on the probabilities.  Logits are in whole units; a probability is      *)
(* written as "zero" or "positive".                                        *)
(***************************************************************************)
NActions == 3

\* exp(-x) is 0.0 in float32 for x beyond this (the smallest subnormal is
\* about exp(-103.3)); the parameter values below stay clear of the edge
ExpUnderflow == 103

fwdOthers == <<envVars, mirageVars, pvpVars, gaeVars, regVars, intVars, detVars, rtVars, numVars, clipVars, selVars, probVars, scnVars, duelVars>>

\* Values a bias or weight of the actor head can hold after training or
\* load_state_dict.  Two logits of these parameters are equal, 12 apart or at
\* least 48 apart
BiasValues == {0, -12, -200}
WeightValues == {0, 60}

\* The last Tanh of shared_layers saturates at -1 or 1
Features == {-1, 1}

\* actor_head[0]: Linear(hidden_dim, action_dim)
Logits(bias, weight, f) == [i \in 1..NActions |-> bias[i] + weight[i] * f]

MaxLogit(z) == CHOOSE m \in {z[i] : i \in 1..NActions} : \A i \in 1..NActions : z[i] <= m

\* nn.Softmax(dim=-1): exp(z - max) / sum, the sum being between 1 and
\* action_dim; an entry is 0.0 exactly when its exp underflows
Softmax(z) ==
    [i \in 1..NActions |->
        IF MaxLogit(z) - z[i] > ExpUnderflow THEN "zero" ELSE "positive"]

\* np.log(action_probs[action] + 1e-10) (line 89): finite for 0.0 as well
LogProbFinite(p) == p \in {"zero", "positive"}

\* A policy as constructed, trained or loaded
FwdInit ==
    /\ f_bias \in [1..NActions -> BiasValues]
    /\ f_weight \in [1..NActions -> WeightValues]
    /\ f_probs = <<>>
    /\ f_ret = [op |-> "init", action |-> 0, log_finite |-> TRUE]

\* forward(state): action_probs of the state whose feature is f
Forward(f) ==
    /\ f_ret.op \in {"init", "get_action"}
    /\ f_probs' = Softmax(Logits(f_bias, f_weight, f))
    /\ f_ret' = [op |-> "forward", action |-> 0, log_finite |-> TRUE]
    /\ UNCHANGED <<f_bias, f_weight>>
    /\ UNCHANGED fwdOthers

\* get_action after its forward pass: np.random.choice draws an action of
\* positive probability (argmax when deterministic), and the log-probability
\* is recorded
GetAction(a) ==
    /\ f_ret.op = "forward"
    /\ f_probs[a] = "positive"
    /\ f_ret' = [op |-> "get_action", action |-> a,
                 log_finite |-> LogProbFinite(f_probs[a])]
    /\ UNCHANGED <<f_bias, f_weight, f_probs>>
    /\ UNCHANGED fwdOthers


(***************************************************************************)
(* The PPO-clip surrogate of PPOAgent.update_policy (ppo_agent.py lines    *)
(* 199-205) and PPOTrainer.update (ppo_trainer.py lines 67-73), for one    *)
(* sample.  Ratio, advantage and clip_ratio are in thousandths, products   *)
(* in millionths.                                                          *)
(***************************************************************************)
clipOthers == <<envVars, mirageVars, pvpVars, gaeVars, regVars, intVars, detVars, rtVars, numVars, fwdVars, selVars, probVars, scnVars, duelVars>>

RatioInputs == {500, 800, 900, 1000, 1100, 1200, 1250, 1300, 2000}
AdvantageInputs == {-2000, -1000, -1, 0, 1, 1000, 2000}
ClipInputs == {100, 200, 300}

\* A clamp that leaves its argument as it is
clamp_Identity(x, lo, hi) == x

\* torch.clamp(x, lo, hi)
clamp(x, lo, hi) == Max(lo, Min(hi, x))

\* surr1 = ratios * advantages; surr2 = clamp(ratios, 1 - clip, 1 + clip) *
\* advantages; torch.min(surr1, surr2)
surrogate(ratio, adv, clip_ratio) ==
    LET surr1 == ratio * adv
        surr2 == clamp(ratio, 1000 - clip_ratio, 1000 + clip_ratio) * adv
    IN  Min(surr1, surr2)

ClipInit ==
    /\ c_ratio \in RatioInputs
    /\ c_adv \in AdvantageInputs
    /\ c_clip \in ClipInputs
    /\ c_ret = [op |-> "init", surr |-> 0]

\* update_policy: the term of the sample in torch.min(surr1, surr2)
UpdatePolicySurrogate ==
    /\ c_ret.op = "init"
    /\ c_ret' = [op |-> "update_policy", surr |-> surrogate(c_ratio, c_adv, c_clip)]
    /\ UNCHANGED <<c_ratio, c_adv, c_clip>>
    /\ UNCHANGED clipOthers

\* PPOTrainer.update: torch.min(surr1, surr2) of the sample
TrainerSurrogate ==
    /\ c_ret.op = "init"
    /\ c_ret' = [op |-> "update", surr |-> surrogate(c_ratio, c_adv, c_clip)]
    /\ UNCHANGED <<c_ratio, c_adv, c_clip>>
    /\ UNCHANGED clipOthers


(***************************************************************************)
(* PPOAgent.select_action / PPOPolicy.get_action with deterministic=True   *)
(* (ppo_agent.py lines 65-91, 136-147) on the policy of f_bias, f_weight.  *)
(* A probability is written by its natural logarithm to the nearest        *)
(* thousandth (1/3 is -1099), and 0.0 by NegInf.                           *)
(***************************************************************************)
MaxCalls == 3

selOthers == <<envVars, mirageVars, pvpVars, gaeVars, regVars, intVars, detVars, rtVars, numVars, clipVars, probVars, scnVars, duelVars>>

\* The logarithm of 0.0
NegInf == -1000000

\* ln 1, ln 2, ln 3, ln 4 in thousandths
LnTable == <<0, 693, 1099, 1386>>

\* ln of the softmax denominator sum(exp(z - max)): the entries at the
\* maximum add 1 each; an entry 12 or more below it adds less than 1e-5
LogSumExp(z) == LnTable[Cardinality({i \in 1..NActions : z[i] = MaxLogit(z)})]

\* action_probs of forward(state): softmax of the logits in float32, an entry
\* being 0.0 when its exp underflows
ActionProbs(z) ==
    [i \in 1..NActions |->
        IF MaxLogit(z) - z[i] > ExpUnderflow THEN NegInf
        ELSE -1000 * (MaxLogit(z) - z[i]) - LogSumExp(z)]

\* An argmax that always answers the first action
argmax_First(p) == 1

\* np.argmax(action_probs): the first index of the largest entry
argmax(p) ==
    CHOOSE a \in 1..NActions :
        /\ \A i \in 1..NActions : p[i] <= p[a]
        /\ \A i \in 1..(a - 1) : p[i] < p[a]

\* ln(1e-10) = -23.02585, the least value np.log(action_probs[action] + 1e-10)
\* takes
LogFloor == -23026

\* np.log(action_probs[action] + 1e-10) in thousandths, for a probability
\* given by its logarithm p: adding 1e-10 changes no thousandth of the
\* logarithm of a probability above exp(-16), and gives ln(1e-10) for one
\* below exp(-33)
LogProb(p) == Max(LogFloor, p)

SelInit ==
    /\ FwdInit
    /\ d_feature = 0
    /\ d_probs = <<>>
    /\ d_ret = [action |-> 0, log_prob |-> 0]
    /\ d_prev = 0
    /\ d_calls = 0

\* select_action(state, deterministic=True)
SelectDeterministic(f) ==
    /\ d_calls < MaxCalls
    /\ \E p \in {ActionProbs(Logits(f_bias, f_weight, f))} :
          /\ d_probs' = p
          /\ d_ret' = [action |-> argmax(p), log_prob |-> LogProb(p[argmax(p)])]
    /\ d_prev' = IF f = d_feature THEN d_ret.action ELSE 0
    /\ d_feature' = f
    /\ d_calls' = d_calls + 1
    /\ UNCHANGED fwdVars
    /\ UNCHANGED selOthers

\* optimizer.step() between two calls: the parameters change
SelUpdate(a, b) ==
    /\ d_calls < MaxCalls
    /\ d_feature # 0
    /\ f_bias' = [f_bias EXCEPT ![a] = b]
    /\ f_bias' # f_bias
    /\ d_feature' = 0
    /\ UNCHANGED <<f_weight, f_probs, f_ret, d_probs, d_ret, d_prev, d_calls>>
    /\ UNCHANGED selOthers


(***************************************************************************)
(* The success probability of CharacterEnvironment._calculate_outcome      *)
(* (ppo_agent.py lines 499-543) over personalities and pressures.          *)
(***************************************************************************)
probOthers == <<envVars, mirageVars, pvpVars, gaeVars, regVars, intVars, detVars, rtVars, numVars, fwdVars, clipVars, selVars, scnVars, duelVars>>

TraitInputs == {0, 500, 1000}
\* threat and opportunity levels, in billionths
LevelInputs == {0, 600000000, 1000000000}

\* A personality vector O, C, E, A, N
Personality(o, c, e, a, n) == [O |-> o, C |-> c, E |-> e, A |-> a, N |-> n]

ProbInit ==
    /\ q_character \in {Personality(o, c, e, a, n) :
                           o \in TraitInputs, c \in TraitInputs, e \in TraitInputs,
                           a \in TraitInputs, n \in TraitInputs}
    /\ q_threat \in LevelInputs
    /\ q_opportunity \in LevelInputs
    /\ q_ret = [action |-> "", success_prob |-> 0]

\* _calculate_outcome(action) up to the comparison with random.random()
CalcSuccessProb(i) ==
    /\ q_ret.action = ""
    /\ q_ret' = [action |-> ActionSpace[i],
                 success_prob |->
                    SuccessProb(ActionSpace[i], q_character,
                                [ResetState(q_character) EXCEPT
                                    !.environment.threat_level = q_threat,
                                    !.environment.opportunity = q_opportunity])]
    /\ UNCHANGED <<q_character, q_threat, q_opportunity>>
    /\ UNCHANGED probOthers


(***************************************************************************)
(* A request with a scenario: simulate_character_behavior (lines 62-73)    *)
(* with run_simulation (lines 254-281), and create_interaction_environment *)
(* (lines 502-508) with simulate_agents_interaction (lines 555-597), on    *)
(* the environment of the variables character .. ret.                      *)
(***************************************************************************)
scnOthers == <<mirageVars, pvpVars, gaeVars, regVars, detVars, rtVars, numVars, fwdVars, clipVars, selVars, probVars, duelVars>>

ScenarioInputs == {{}, {"danger"}, {"opportunity", "urgent"}, {"social", "anger", "sadness"}}

\* env = CharacterEnvironment(profile, ...): the constructor ends with reset()
ScnInit ==
    /\ h_kind \in {"simulate", "interact"}
    /\ h_scenario \in ScenarioInputs
    /\ h_pc = "built"
    /\ character \in Profiles
    /\ other_character \in (IF h_kind = "interact" THEN Profiles ELSE {<<>>})
    /\ max_steps = (IF h_kind = "interact" THEN DefaultMaxSteps ELSE MaxSteps)
    /\ current_step = 0
    /\ state = ResetState(character)
    /\ ret = NoRet
    /\ i_actor = 0
    /\ i_round = 0

\* if scenario: env = configure_scenario(env, scenario)
ScnConfigure ==
    /\ h_pc = "built"
    /\ state' = IF h_scenario = {} THEN state
                ELSE configure_scenario(state, h_scenario)
    /\ h_pc' = "configured"
    /\ UNCHANGED <<character, max_steps, current_step, ret, h_kind, h_scenario>>
    /\ UNCHANGED intVars
    /\ UNCHANGED scnOthers

\* state = env.reset() at the start of run_simulation (line 255) and of
\* simulate_agents_interaction (line 555)
ScnReset ==
    /\ h_pc = "configured"
    /\ current_step' = 0
    /\ state' = ResetState(character)
    /\ ret' = NoRet
    /\ h_pc' = "rollout"
    /\ UNCHANGED <<character, max_steps, h_kind, h_scenario>>
    /\ UNCHANGED intVars
    /\ UNCHANGED scnOthers

\* A step of the rollout: the agent's action on the environment
ScnStep(idx, draw, walk) ==
    /\ h_pc = "rollout"
    /\ current_step < MaxSteps
    /\ ret.error = "none"
    /\ IF h_kind = "interact"
          THEN \E r \in {interaction_step(character, other_character, max_steps,
                                          current_step, state, idx, draw, walk)} :
                  /\ current_step' = r.current_step
                  /\ state' = r.state
                  /\ ret' = r.ret
          ELSE /\ idx < Len(ActionSpace)
               /\ \E r \in {step(character, max_steps, current_step, state, idx,
                                 ActionSpace[idx + 1], draw, walk)} :
                     /\ current_step' = r.current_step
                     /\ state' = r.state
                     /\ ret' = r.ret
    /\ UNCHANGED <<character, max_steps, h_pc, h_kind, h_scenario>>
    /\ UNCHANGED intVars
    /\ UNCHANGED scnOthers


(***************************************************************************)
(* CharacterEnvironment over an episode long enough for health to reach    *)
(* its floor (ppo_agent.py lines 662-663, 484-485): one episode from reset *)
(* to done, with the steps that cost health among the inputs.              *)
(***************************************************************************)
LongHorizon == 11

\* Action index and success draw: 对抗 succeeding, 强硬 failing ("冲突",
\* which costs health)
HealthInputs == {<<7, 99>>, <<9, 900>>}

HealthInit ==
    /\ character \in Profiles
    /\ max_steps = LongHorizon
    /\ current_step = 0
    /\ state = ResetState(character)
    /\ ret = NoRet

\* A step of the episode; the caller stops at done
HealthStep(in, walk) ==
    /\ ~ret.done
    /\ \E r \in {step(character, max_steps, current_step, state, in[1],
                       ActionSpace[in[1] + 1], in[2], walk)} :
          /\ current_step' = r.current_step
          /\ state' = r.state
          /\ ret' = r.ret
    /\ UNCHANGED <<character, max_steps>>
    /\ UNCHANGED envOthers


(***************************************************************************)
(* app/pvp_arena/arena_engine.py: simulate_duel, on the PvPArenaEnv of the *)
(* variables profiles .. p_ret.  The two PPOTrainer.train calls run        *)
(* episodes of reset, 100 steps and PPOTrainer.update on the shared        *)
(* environment; the duel loop then calls PPOTrainer.run_step.              *)
(***************************************************************************)
MaxRounds == 3

\* trainer1.train(episodes=10), trainer2.train(episodes=10)
TrainEpisodes == 10

duelOthers == <<envVars, mirageVars, gaeVars, regVars, intVars, detVars, rtVars, numVars, fwdVars, clipVars, selVars, probVars, scnVars>>

\* PolicyNetwork has six action logits (policy_model.py line 6)
TrainerActions == 0..5

\* The sampled actions explored: 0 and 1, which write the profiles, and 2,
\* one of the four that leave them alone
TrainerActionInputs == {action \in TrainerActions : action <= 2}

\* PPOTrainer.update(states, actions, rewards, log_probs) on the n samples of
\* an episode: the exception it ends with.  The log_probs were recorded by
\* train with their graph (line 24, not detached).  Sample 0 is
\* back-propagated and optimizer.step() (line 76) writes the parameters in
\* place.  The backward pass of sample 1 (line 75) runs through the graph of
\* log_probs[1], which holds the parameters as they were during the rollout.
\* A torch that counts in-place writes in the tensors' version counters
\* (1.5 and later) raises RuntimeError there; an older one computes the
\* gradient from the overwritten parameters and goes on.  The repository
\* pins no torch version.
update(torch_checks, n) ==
    IF torch_checks /\ n >= 2 THEN "RuntimeError" ELSE "none"

\* env = PvPArenaEnv(profile1, profile2); the trainers are constructed
DuelInit ==
    /\ PvPInit
    /\ u_pc = "t1_reset"
    /\ u_rounds \in 1..MaxRounds
    /\ u_log = <<>>
    /\ u_error = "none"
    /\ u_episode = 0
    /\ u_torch_checks \in BOOLEAN

\* PPOTrainer.train: state = self.env.reset() at the start of an episode
DuelTrainReset ==
    /\ u_pc \in {"t1_reset", "t2_reset"}
    /\ turn' = 0
    /\ states' = <<build_state(profiles[1]), build_state(profiles[2])>>
    /\ p_steps' = 0
    /\ p_ret' = MirageNoRet
    /\ u_pc' = IF u_pc = "t1_reset" THEN "t1_step" ELSE "t2_step"
    /\ UNCHANGED <<profiles, u_rounds, u_log, u_error, u_episode, u_torch_checks>>
    /\ UNCHANGED duelOthers

\* PPOTrainer.train: one pass of the loop for _ in range(100) (lines 19-36):
\* the sampled action, self.env.step(action.item()).  done is always False,
\* so the loop leaves after its 100th pass, for self.update (line 38).  A
\* KeyError of the step ends simulate_duel
DuelTrainStep(action) ==
    /\ u_pc \in {"t1_step", "t2_step"}
    /\ \E u \in {pvp_update(profiles, turn + 1, action)} :
          /\ PvPDriftOk(u.profiles)
          /\ profiles' = u.profiles
          /\ p_steps' = p_steps + 1
          /\ IF u.error = "none"
                THEN /\ states' = <<build_state(u.profiles[1]),
                                    build_state(u.profiles[2])>>
                     /\ turn' = 1 - turn
                     /\ p_ret' = [op |-> "step", arg |-> action, error |-> "none",
                                  reward |-> compute_reward(profiles[turn + 1],
                                                            states[turn + 1], action),
                                  done |-> FALSE]
                     /\ u_pc' = IF p_steps + 1 < PvPHorizon THEN u_pc
                                ELSE IF u_pc = "t1_step" THEN "t1_update" ELSE "t2_update"
                     /\ UNCHANGED u_error
                ELSE /\ UNCHANGED <<states, turn>>
                     /\ p_ret' = [MirageNoRet EXCEPT !.op = "step", !.arg = action,
                                                     !.error = u.error]
                     /\ u_pc' = "raised"
                     /\ u_error' = u.error
    /\ UNCHANGED <<u_rounds, u_log, u_episode, u_torch_checks>>
    /\ UNCHANGED duelOthers

\* PPOTrainer.train: self.update(states, actions, rewards, log_probs) at the
\* end of an episode (line 38), on the p_steps samples of the episode.  Its
\* exception ends simulate_duel; otherwise the next episode begins, and after
\* the last episode of trainer1 the train call of trainer2, and after the last
\* of trainer2 the duel loop
DuelTrainUpdate ==
    /\ u_pc \in {"t1_update", "t2_update"}
    /\ \E e \in {update(u_torch_checks, p_steps)} :
          IF e # "none"
             THEN /\ u_pc' = "raised"
                  /\ u_error' = e
                  /\ UNCHANGED u_episode
             ELSE /\ u_episode' = IF u_episode + 1 < TrainEpisodes THEN u_episode + 1 ELSE 0
                  /\ u_pc' = IF u_episode + 1 < TrainEpisodes
                                THEN (IF u_pc = "t1_update" THEN "t1_reset" ELSE "t2_reset")
                                ELSE (IF u_pc = "t1_update" THEN "t2_reset" ELSE "duel")
                  /\ UNCHANGED u_error
    /\ UNCHANGED <<u_rounds, u_log, u_torch_checks>>
    /\ UNCHANGED pvpVars
    /\ UNCHANGED duelOthers

\* The first round of the duel loop (lines 27-30): active_trainer.run_step()
\* begins with state = self.env.state (ppo_trainer.py line 42), an attribute
\* PvPArenaEnv does not have (it has states): AttributeError, before any step
\* is taken and before logger.log is reached
DuelRunStep ==
    /\ u_pc = "duel"
    /\ u_pc' = "raised"
    /\ u_error' = "AttributeError"
    /\ UNCHANGED <<u_rounds, u_log, u_episode, u_torch_checks>>
    /\ UNCHANGED pvpVars
    /\ UNCHANGED duelOthers


(***************************************************************************)
(* Specifications.  Each one runs one part of the program; the variables   *)
(* of the other parts stay at their idle values.                           *)
(***************************************************************************)
EnvIdle ==
    /\ character = <<>>
    /\ max_steps = 0
    /\ current_step = 0
    /\ state = <<>>
    /\ ret = NoRet

MirageIdle ==
    /\ m_profile = <<>>
    /\ m_orig = <<>>
    /\ m_current_step = 0
    /\ m_state = <<>>
    /\ m_residue = <<>>
    /\ m_state_residue = <<>>
    /\ m_done = FALSE
    /\ m_ret = MirageNoRet

PvPIdle ==
    /\ profiles = <<>>
    /\ turn = 0
    /\ states = <<>>
    /\ p_steps = 0
    /\ p_ret = MirageNoRet

GaeIdle ==
    /\ gae_in = <<>>
    /\ gae_out = <<>>

RegIdle ==
    /\ AGENT_CACHE = <<>>
    /\ agents = <<>>
    /\ storage = <<>>
    /\ pc = <<>>
    /\ req = <<>>
    /\ loc = <<>>
    /\ served = 0

IntIdle ==
    /\ other_character = <<>>
    /\ i_actor = 0
    /\ i_round = 0

DetIdle ==
    /\ rng = [seed |-> 0, pos |-> 0]
    /\ run = 0
    /\ acts = <<>>
    /\ log1 = <<>>
    /\ final1 = <<>>
    /\ log2 = <<>>

RtIdle ==
    /\ rt_agent = <<>>
    /\ rt_blob = <<>>
    /\ rt_loaded = <<>>
    /\ rt_ret = [op |-> "none", error |-> "none"]

NumIdle ==
    /\ n_pc = "idle"
    /\ n_params = TRUE
    /\ n_batch = TRUE
    /\ n_epoch = 0
    /\ n_episode = 0
    /\ n_steps = 0
    /\ n_nonfinite = 0
    /\ n_blob = "none"

FwdIdle ==
    /\ f_bias = <<>>
    /\ f_weight = <<>>
    /\ f_probs = <<>>
    /\ f_ret = [op |-> "none", action |-> 0, log_finite |-> TRUE]

ClipIdle ==
    /\ c_ratio = 0
    /\ c_adv = 0
    /\ c_clip = 0
    /\ c_ret = [op |-> "none", surr |-> 0]

SelIdle ==
    /\ d_feature = 0
    /\ d_probs = <<>>
    /\ d_ret = [action |-> 0, log_prob |-> 0]
    /\ d_prev = 0
    /\ d_calls = 0

ProbIdle ==
    /\ q_character = <<>>
    /\ q_threat = 0
    /\ q_opportunity = 0
    /\ q_ret = [action |-> "", success_prob |-> 0]

ScnIdle ==
    /\ h_pc = "idle"
    /\ h_kind = ""
    /\ h_scenario = {}

DuelIdle ==
    /\ u_pc = "idle"
    /\ u_rounds = 0
    /\ u_log = <<>>
    /\ u_error = "none"
    /\ u_episode = 0
    /\ u_torch_checks = FALSE

\* CharacterEnvironment driven by an arbitrary caller
InitEnv == EnvInit /\ MirageIdle /\ PvPIdle /\ GaeIdle /\ RegIdle /\ IntIdle /\ DetIdle /\ RtIdle /\ NumIdle /\ FwdIdle /\ ClipIdle /\ SelIdle /\ ProbIdle /\ ScnIdle /\ DuelIdle

NextEnv ==
    \/ \E scn \in Scenarios : ConfigureScenario(scn)
    \/ Reset
    \/ \E idx \in ActionInputs, draw \in SuccessDraws, walk \in WalkDraws :
          StepOk(idx, draw, walk)
    \/ \E idx \in ActionInputs : StepIndexError(idx)

SpecEnv == InitEnv /\ [][NextEnv]_vars

\* MirageEnv driven by an arbitrary caller
InitMirage == EnvIdle /\ MirageInit /\ PvPIdle /\ GaeIdle /\ RegIdle /\ IntIdle /\ DetIdle /\ RtIdle /\ NumIdle /\ FwdIdle /\ ClipIdle /\ SelIdle /\ ProbIdle /\ ScnIdle /\ DuelIdle

NextMirage ==
    \/ \E action \in MirageActionInputs : MirageStep(action)
    \/ MirageReset

SpecMirage == InitMirage /\ [][NextMirage]_vars

\* PvPArenaEnv driven by an arbitrary caller
InitPvP == EnvIdle /\ MirageIdle /\ PvPInit /\ GaeIdle /\ RegIdle /\ IntIdle /\ DetIdle /\ RtIdle /\ NumIdle /\ FwdIdle /\ ClipIdle /\ SelIdle /\ ProbIdle /\ ScnIdle /\ DuelIdle

NextPvP ==
    \/ \E action \in PvPActionInputs : PvPStep(action)
    \/ PvPReset

SpecPvP == InitPvP /\ [][NextPvP]_vars

\* One call of compute_returns_and_advantages on arbitrary arguments
InitGae == EnvIdle /\ MirageIdle /\ PvPIdle /\ GaeInit /\ RegIdle /\ IntIdle /\ DetIdle /\ RtIdle /\ NumIdle /\ FwdIdle /\ ClipIdle /\ SelIdle /\ ProbIdle /\ ScnIdle /\ DuelIdle

NextGae == GaeCall

SpecGae == InitGae /\ [][NextGae]_vars

\* The request handlers on the server's worker threads
InitReg == EnvIdle /\ MirageIdle /\ PvPIdle /\ GaeIdle /\ RegInit /\ IntIdle /\ DetIdle /\ RtIdle /\ NumIdle /\ FwdIdle /\ ClipIdle /\ SelIdle /\ ProbIdle /\ ScnIdle /\ DuelIdle

HandlerSteps ==
    \/ \E t \in Threads : GetCheck(t)
    \/ \E t \in Threads : GetHit(t)
    \/ \E t \in Threads : GetExists(t)
    \/ \E t \in Threads : GetLoad(t)
    \/ \E t \in Threads : GetNew(t)
    \/ \E t \in Threads : GetPut(t)
    \/ \E t \in Threads : SimSelect(t)
    \/ \E t \in Threads : SimSelected(t)
    \/ \E t \in Threads : TrSelect(t)
    \/ \E t \in Threads : TrSelected(t)
    \/ \E t \in Threads : IntSelect1(t)
    \/ \E t \in Threads : IntSelected1(t)
    \/ \E t \in Threads : IntSelect2(t)
    \/ \E t \in Threads : IntSelected2(t)
    \/ \E t \in Threads : StepRaises(t)

NextReg ==
    \/ \E t \in Threads, kind \in Kinds, cid \in CharIds, cid2 \in CharIds :
           StartRequest(t, kind, cid, cid2)
    \/ HandlerSteps

SpecReg == InitReg /\ [][NextReg]_vars

\* The same handlers on a server that handles one request at a time
NextSeq ==
    \/ \E t \in Threads, kind \in Kinds, cid \in CharIds, cid2 \in CharIds :
           SeqStartRequest(t, kind, cid, cid2)
    \/ HandlerSteps

SpecSeq == InitReg /\ [][NextSeq]_vars

\* simulate_agents_interaction on the interaction environment
InitInteract == InteractInit /\ MirageIdle /\ PvPIdle /\ GaeIdle /\ RegIdle /\ DetIdle /\ RtIdle /\ NumIdle /\ FwdIdle /\ ClipIdle /\ SelIdle /\ ProbIdle /\ ScnIdle /\ DuelIdle

NextInteract ==
    \/ \E idx \in InteractionInputs, draw \in SuccessDraws, walk \in WalkDraws :
           InteractStep(idx, draw, walk)
    \/ \E p1 \in Profiles, p2 \in Profiles : InteractAgain(p1, p2)

SpecInteract == InitInteract /\ [][NextInteract]_vars

\* Two runs of one CharacterEnvironment under the same seed
InitDet == DetInit /\ MirageIdle /\ PvPIdle /\ GaeIdle /\ RegIdle /\ IntIdle /\ RtIdle /\ NumIdle /\ FwdIdle /\ ClipIdle /\ SelIdle /\ ProbIdle /\ ScnIdle /\ DuelIdle

NextDet ==
    \/ \E idx \in ActionInputs : DetStep(idx)
    \/ DetSecondRun
    \/ DetReplay

SpecDet == InitDet /\ [][NextDet]_vars

\* save_model then load_model on one agent
InitRt == RtInit /\ EnvIdle /\ MirageIdle /\ PvPIdle /\ GaeIdle /\ RegIdle /\ IntIdle /\ DetIdle /\ NumIdle /\ FwdIdle /\ ClipIdle /\ SelIdle /\ ProbIdle /\ ScnIdle /\ DuelIdle

NextRt == RtUpdate \/ RtSave \/ RtLoad

SpecRt == InitRt /\ [][NextRt]_vars

\* train_agent's updates and save with non-finite values
InitNum == NumInit /\ EnvIdle /\ MirageIdle /\ PvPIdle /\ GaeIdle /\ RegIdle /\ IntIdle /\ DetIdle /\ RtIdle /\ FwdIdle /\ ClipIdle /\ SelIdle /\ ProbIdle /\ ScnIdle /\ DuelIdle

NextNum ==
    \/ \E batch_finite \in BOOLEAN : NumCall(batch_finite)
    \/ \E loss_finite \in BOOLEAN, grads_finite \in BOOLEAN :
          NumEpoch(loss_finite, grads_finite)
    \/ NumSave

SpecNum == InitNum /\ [][NextNum]_vars

\* Forward passes of one policy
InitFwd == FwdInit /\ EnvIdle /\ MirageIdle /\ PvPIdle /\ GaeIdle /\ RegIdle /\ IntIdle /\ DetIdle /\ RtIdle /\ NumIdle /\ ClipIdle /\ SelIdle /\ ProbIdle /\ ScnIdle /\ DuelIdle

NextFwd ==
    \/ \E f \in Features : Forward(f)
    \/ \E a \in 1..NActions : GetAction(a)

SpecFwd == InitFwd /\ [][NextFwd]_vars

\* The surrogate of one sample
InitClip == ClipInit /\ EnvIdle /\ MirageIdle /\ PvPIdle /\ GaeIdle /\ RegIdle /\ IntIdle /\ DetIdle /\ RtIdle /\ NumIdle /\ FwdIdle /\ SelIdle /\ ProbIdle /\ ScnIdle /\ DuelIdle

NextClip == UpdatePolicySurrogate \/ TrainerSurrogate

SpecClip == InitClip /\ [][NextClip]_vars

\* Deterministic action selection on one policy
InitSel == SelInit /\ EnvIdle /\ MirageIdle /\ PvPIdle /\ GaeIdle /\ RegIdle /\ IntIdle /\ DetIdle /\ RtIdle /\ NumIdle /\ ClipIdle /\ ProbIdle /\ ScnIdle /\ DuelIdle

NextSel ==
    \/ \E f \in Features : SelectDeterministic(f)
    \/ \E a \in 1..NActions, b \in BiasValues : SelUpdate(a, b)

SpecSel == InitSel /\ [][NextSel]_vars

\* The success probability as a function of personality and pressures
InitProb == ProbInit /\ EnvIdle /\ MirageIdle /\ PvPIdle /\ GaeIdle /\ RegIdle /\ IntIdle /\ DetIdle /\ RtIdle /\ NumIdle /\ FwdIdle /\ ClipIdle /\ SelIdle /\ ScnIdle /\ DuelIdle

NextProb == \E i \in 1..Len(ActionSpace) : CalcSuccessProb(i)

SpecProb == InitProb /\ [][NextProb]_vars

\* A request with a scenario
InitScn == ScnInit /\ MirageIdle /\ PvPIdle /\ GaeIdle /\ RegIdle /\ DetIdle /\ RtIdle /\ NumIdle /\ FwdIdle /\ ClipIdle /\ SelIdle /\ ProbIdle /\ DuelIdle

NextScn ==
    \/ ScnConfigure
    \/ ScnReset
    \/ \E idx \in InteractionInputs, draw \in SuccessDraws, walk \in WalkDraws :
          ScnStep(idx, draw, walk)

SpecScn == InitScn /\ [][NextScn]_vars

\* One long episode of CharacterEnvironment
InitHealth == HealthInit /\ MirageIdle /\ PvPIdle /\ GaeIdle /\ RegIdle /\ IntIdle /\ DetIdle /\ RtIdle /\ NumIdle /\ FwdIdle /\ ClipIdle /\ SelIdle /\ ProbIdle /\ ScnIdle /\ DuelIdle

NextHealth == \E in \in HealthInputs, walk \in {<<100000000, -100000000, 100000000>>} : HealthStep(in, walk)

SpecHealth == InitHealth /\ [][NextHealth]_vars

\* simulate_duel
InitDuel == DuelInit /\ EnvIdle /\ MirageIdle /\ GaeIdle /\ RegIdle /\ IntIdle /\ DetIdle /\ RtIdle /\ NumIdle /\ FwdIdle /\ ClipIdle /\ SelIdle /\ ProbIdle /\ ScnIdle

NextDuel ==
    \/ DuelTrainReset
    \/ \E action \in TrainerActionInputs : DuelTrainStep(action)
    \/ DuelTrainUpdate
    \/ DuelRunStep

SpecDuel == InitDuel /\ [][NextDuel]_vars







(***************************************************************************)
(* Claims about AGENT_CACHE and the agents (SpecReg, SpecSeq)              *)
(***************************************************************************)
\* The agents initialised or loaded so far for a character id
AgentsFor(cid) == {a \in DOMAIN agents : agents[a].cid = cid}

\* C1: when several requests call get_agent_for_character for the same key
\* at once, exactly one agent is initialised or loaded for the key (and so the
\* cache entry is never replaced by a second, independently made agent).
C1_OneAgentPerKey ==
    \A cid \in CharIds : Cardinality(AgentsFor(cid)) <= 1

\* The (key, agent) pairs get_agent_for_character has returned to the
\* handler thread t is running
Returned(t) ==
    {<<req[t].cid, loc[t].agent>> : x \in {1} \cap {y \in {1} : loc[t].agent # 0}}
    \cup
    {<<req[t].cid2, loc[t].agent2>> : x \in {1} \cap {y \in {1} : loc[t].agent2 # 0}}

\* C4: on a server that handles one request at a time, a call of
\* get_agent_for_character returns the one agent ever initialised or loaded
\* for its key, which is the cached one: a second call for the key, whatever
\* its environment, returns the agent of the first and makes no new one.
C4_SuccessiveCallsSameAgent ==
    \A t \in Threads : \A r \in Returned(t) :
        /\ AgentsFor(r[1]) = {r[2]}
        /\ r[1] \in DOMAIN AGENT_CACHE
        /\ AGENT_CACHE[r[1]] = r[2]

\* A later call has returned the cached agent to a handler whose environment
\* has another action count than the one the agent was made for
C4_Witness ==
    \E t \in Threads :
        /\ loc[t].path = "hit"
        /\ loc[t].agent # 0
        /\ agents[loc[t].agent].action_dim # EnvDims(req[t].kind).action_dim
        /\ <<req[t].cid, loc[t].agent>> \in Returned(t)

\* The pcs at which a handler is about to issue, or is issuing, the
\* select_action whose action goes to env.step
Stepping(t) ==
    pc[t] \in {"sim_select", "sim_selecting", "tr_select", "tr_selecting",
               "int_select1", "int_selecting1",
               "int_select2", "int_selecting2"}

\* The steps a rollout was asked for: steps, steps_per_episode, or two per
\* interaction round
Requested(t) ==
    IF req[t].kind = "interact" THEN 2 * RolloutSteps ELSE RolloutSteps

\* The pcs of a handler that has entered its rollout
InRollout(t) == Stepping(t)

\* C11: every rollout begins with reset, has recorded one entry per step it
\* issued, issues no more steps than requested, and is never about to issue
\* a step after a step returned done.
C11_RolloutWellFormed ==
    \A t \in Threads :
        InRollout(t) =>
            /\ loc[t].reset
            /\ loc[t].records = loc[t].estep
            /\ loc[t].estep <= Requested(t)
            /\ (Stepping(t) => ~loc[t].done /\ loc[t].estep < Requested(t))

\* A simulation rollout is selecting the action of its last requested step,
\* every step before it issued and recorded and none of them done
C11_Witness ==
    \E t \in Threads :
        /\ pc[t] = "sim_selecting"
        /\ loc[t].reset
        /\ ~loc[t].done
        /\ loc[t].estep = RolloutSteps - 1
        /\ loc[t].records = RolloutSteps - 1
        /\ RolloutSteps > 1

\* C12: an agent whose state_dim or action_dim differs from the requesting
\* environment's is never returned by get_agent_for_character (the call fails
\* instead), so no handler holds an agent that can select an index its
\* environment does not have.
C12_MismatchRejected ==
    \A t \in Threads : \A r \in Returned(t) :
        /\ agents[r[2]].state_dim = EnvDims(req[t].kind).state_dim
        /\ agents[r[2]].action_dim = EnvDims(req[t].kind).action_dim

\* C18: a call of get_agent_for_character that finds neither a cached agent
\* nor a model file returns a freshly initialised agent with the state_dim and
\* action_dim of the caller's environment, recorded in the cache under the key.
C18_FreshAgentOnMiss ==
    [][\A t \in Threads :
          (pc[t] = "get_put" /\ pc'[t] # "get_put"
                /\ agents[loc[t].new].origin = "init")
            => /\ Key(t) \in DOMAIN AGENT_CACHE'
               /\ AGENT_CACHE'[Key(t)] = loc[t].new
               /\ loc[t].new \in {loc'[t].agent, loc'[t].agent2}
               /\ agents'[loc[t].new].state_dim = EnvDims(req[t].kind).state_dim
               /\ agents'[loc[t].new].action_dim = EnvDims(req[t].kind).action_dim
               /\ agents'[loc[t].new].opt = [i \in 1..NTensors |-> 0]]_vars

\* An interaction handler got a fresh agent for its twelve-action environment
C18_Witness ==
    \E t \in Threads :
        /\ req[t].kind = "interact"
        /\ loc[t].agent # 0
        /\ agents[loc[t].agent].origin = "init"
        /\ agents[loc[t].agent].action_dim = 12
        /\ req[t].cid \in DOMAIN AGENT_CACHE
        /\ AGENT_CACHE[req[t].cid] = loc[t].agent

(***************************************************************************)
(* Claims about the two-character environments (SpecInteract, SpecPvP)     *)
(***************************************************************************)
\* The profile of the agent that acted, and of its counterpart
ActiveProfile(actor) == IF actor = 1 THEN character ELSE other_character
PassiveProfile(actor) == IF actor = 1 THEN other_character ELSE character

\* C14: in the pairwise interaction the steps alternate between the two
\* profiles starting with the first, and the reward of each step is the one
\* computed from the profile whose turn it is (for some success draw).
C14_TurnProfileUsed ==
    [][(ret'.op = "step" /\ ret'.error = "none"
            /\ current_step' = current_step + 1 /\ i_actor' # 0)
          => /\ i_actor' = (IF i_actor = 1 THEN 2 ELSE 1)
             /\ \E draw \in SuccessDraws, walk \in WalkDraws :
                   ret'.reward =
                       interaction_step(ActiveProfile(i_actor'),
                                        PassiveProfile(i_actor'), max_steps,
                                        current_step, state, ret'.arg,
                                        draw, walk).ret.reward]_vars

\* C15: no operation of the environment changes a field of the profile it
\* was given: the caller's profile object, which MirageEnv holds as
\* self.profile, still has the contents it was supplied with.
C15_ProfileNeverChanged == m_profile = m_orig

\* C23: the history is append-only and faithful, in the pairwise interaction
\* environment too: a successful step appends exactly one record, numbered
\* by its position, that carries the action, the outcome text and the reward
\* which the step returned to its caller, and leaves the earlier records alone.
C23_HistoryFaithful ==
    [][(ret'.op = "step" /\ ret'.error = "none")
          => /\ Len(state'.history) = Len(state.history) + 1
             /\ SubSeq(state'.history, 1, Len(state.history)) = state.history
             /\ LET rec == state'.history[Len(state'.history)]
                IN  /\ rec.step = Len(state'.history)
                    /\ rec.action = ret'.action
                    /\ <<rec.outcome, "">> = <<ret'.outcome, ret'.response>>
                    /\ rec.reward = ret'.reward]_vars

(***************************************************************************)
(* Claims about the random source (SpecDet)                                *)
(***************************************************************************)
\* C16: two runs from reset with the same profile, the same seed of the
\* process-wide random source and the same action sequence give the same
\* rewards step by step and the same final state.
C16_SameSeedSameRun ==
    run = 2 =>
        /\ \A k \in 1..Len(log2) : log2[k] = log1[k]
        /\ (Len(log2) = Len(acts) => log2 = log1 /\ state = final1)

C16_Witness ==
    /\ run = 2
    /\ Len(acts) = MaxSteps
    /\ Len(log2) = Len(acts)
    /\ log1[1] # log1[2]
    /\ state.environment # ResetState(character).environment

(***************************************************************************)
(* Claims about save_model / load_model (SpecRt)                           *)
(***************************************************************************)
\* C17: load_model of the blob save_model wrote yields an agent whose policy
\* parameters, optimizer state, state_dim and action_dim equal those of the
\* saved agent, so that both give the same action distribution for a probe.
C17_SaveLoadRoundTrip ==
    rt_ret.op = "load" =>
        /\ rt_ret.error = "none"
        /\ rt_loaded.policy = rt_agent.policy
        /\ rt_loaded.optimizer = rt_agent.optimizer
        /\ rt_loaded.state_dim = rt_agent.state_dim
        /\ rt_loaded.action_dim = rt_agent.action_dim
        /\ \A probe \in 1..2 :
              ActionDistribution(rt_loaded, probe) = ActionDistribution(rt_agent, probe)

(***************************************************************************)
(* Claims about numeric anomalies (SpecNum)                                *)
(***************************************************************************)
\* C19: an update pass with non-finite values is skipped (no optimizer step
\* is taken for it, so the parameters stay finite), the updates go on, and
\* the stored blob never holds non-finite parameters.
C19_AnomalyContained ==
    /\ n_steps + n_nonfinite <= n_episode * UpdateEpochs + n_epoch
    /\ n_params
    /\ n_pc # "raised"
    /\ n_blob # "nonfinite"

(***************************************************************************)
(* Claims about the policy's forward pass (SpecFwd)                        *)
(***************************************************************************)
\* C20: the action distribution of a forward pass gives every action a
\* probability strictly greater than 0 (and sums to 1), so that every recorded
\* log-probability is finite.
C20_ProbabilitiesPositive ==
    /\ f_ret.op = "forward" => \A i \in 1..NActions : f_probs[i] = "positive"
    /\ f_ret.op = "get_action" => f_ret.log_finite

(***************************************************************************)
(* Claims about the clipped surrogate (SpecClip)                           *)
(***************************************************************************)
\* C21: for a ratio at or above 1 + clip_ratio the surrogate of the sample is
\* the clipped term (1 + clip_ratio) * advantage when the advantage is
\* positive and the unclipped term ratio * advantage when it is negative.
C21_ClipBoundary ==
    (c_ret.op # "init" /\ c_ratio >= 1000 + c_clip) =>
        /\ c_adv > 0 => c_ret.surr = (1000 + c_clip) * c_adv
        /\ c_adv < 0 => c_ret.surr = c_ratio * c_adv

C21_Witness ==
    /\ c_ret.op = "update_policy"
    /\ c_ratio > 1000 + c_clip
    /\ c_adv > 0
    /\ c_ret.surr = (1000 + c_clip) * c_adv
    /\ c_ret.surr # c_ratio * c_adv

(***************************************************************************)
(* Claims about deterministic action selection (SpecSel)                   *)
(***************************************************************************)
\* C22: select_action with deterministic=True returns an action whose
\* probability is maximal in the distribution it returns, with that action's
\* log-probability, and a second such call on the same state with unchanged
\* parameters returns the same action.
C22_DeterministicArgmax ==
    d_ret.action # 0 =>
        /\ \A i \in 1..NActions : d_probs[i] <= d_probs[d_ret.action]
        /\ d_ret.log_prob = LogProb(d_probs[d_ret.action])
        /\ d_prev # 0 => d_ret.action = d_prev

C22_Witness ==
    /\ d_prev # 0
    /\ d_ret.action = d_prev
    /\ d_ret.action # 1
    /\ \E i \in 1..NActions : d_probs[i] < d_probs[d_ret.action]

(***************************************************************************)
(* Claims about the success probability (SpecProb)                         *)
(***************************************************************************)
\* C24: for every action, every personality with components in [0,1] and
\* every threat and opportunity level, the success probability compared with
\* the random draw lies in [0.1, 0.9].
C24_SuccessProbClamped ==
    q_ret.action # "" => (100 <= q_ret.success_prob /\ q_ret.success_prob <= 900)

\* 冒险 for O = 1, C = 0 at a high opportunity: 0.5 + 0.3 + 0.2, clamped to 0.9
C24_Witness ==
    /\ q_ret.action = "venture"
    /\ q_character.O = 1000
    /\ q_character.C = 0
    /\ q_opportunity > 700000000
    /\ q_ret.success_prob = 900

(***************************************************************************)
(* Claims about requests with a scenario (SpecScn)                         *)
(***************************************************************************)
\* C27: when the request carries a scenario, the adjustments of
\* configure_scenario are present in the state from which the first action is
\* selected and in which the first step is executed.
C27_ScenarioInFirstState ==
    (h_pc = "rollout" /\ current_step = 0 /\ h_scenario # {})
        => state = configure_scenario(ResetState(character), h_scenario)

(***************************************************************************)
(* Claims about health and termination (SpecHealth)                        *)
(***************************************************************************)
\* C28: health never exceeds its reset value 1.0 and never falls below 0.1,
\* so after reset a step returns done for the first time on exactly the
\* max_steps-th step.
C28_HealthNeverTerminates ==
    /\ 100 <= state.health /\ state.health <= 1000
    /\ (ret.op = "step" /\ ret.error = "none")
          => (ret.done <=> current_step = max_steps)

\* Every step of the episode cost health: the floor held from the ninth on
C28_Witness ==
    /\ ret.op = "step"
    /\ ret.done
    /\ current_step = LongHorizon
    /\ state.health = 100
    /\ \A k \in 1..Len(state.history) : state.history[k].outcome = "tough-"

(***************************************************************************)
(* Claims about simulate_duel (SpecDuel)                                   *)
(***************************************************************************)
\* C29: simulate_duel produces a log of exactly `rounds` entries that
\* alternate between the two characters starting with character 1, each
\* entry naming the character on whose turn its action was taken (for
\* profiles carrying every key the training steps read).
C29_DuelLogAlternates ==
    (/\ u_pc \notin {"t1_reset", "t1_step", "t1_update", "t2_reset", "t2_step", "t2_update", "duel"}
     /\ u_error # "KeyError")
        => /\ u_error = "none"
           /\ Len(u_log) = u_rounds
           /\ \A k \in 1..Len(u_log) : u_log[k].turn = (k - 1) % 2

(***************************************************************************)
(* Claims about the observation space of MirageEnv (SpecMirage)            *)
(***************************************************************************)
\* C30: on a profile whose initial observation lies within the declared
\* observation space (18 components within [0, 1]), every observation
\* returned by reset and step lies within it, after any sequence of calls.
C30_ObservationInSpace ==
    observation_space_contains(build_state(m_orig), profile_residue(m_orig))
        => observation_space_contains(m_state, m_state_residue)

(***************************************************************************)
(* Claims about CharacterEnvironment (SpecEnv)                             *)
(***************************************************************************)
\* The episode has ended and reset has not been called since: some step has
\* returned done = TRUE (current_step >= max_steps or health <= 0, line 485;
\* only reset lowers current_step or restores health).
Terminated == current_step >= max_steps \/ state.health <= 0

\* C5: once step has returned done = TRUE, a further step without a reset in
\* between fails with InvalidState and leaves the step counter, the episodic
\* state and the history as they were.
C5_StepAfterDoneRejected ==
    [][(Terminated /\ ret'.op = "step")
          => (ret'.error = "InvalidState"
              /\ current_step' = current_step /\ state' = state)]_vars

\* C6: a step whose action index is outside 0..len(action_space)-1 (negative
\* indices included) is rejected with an error and leaves the step counter,
\* the episodic state and the history as they were.
C6_OutOfRangeRejected ==
    [][(ret'.op = "step" /\ ret'.arg \notin 0 .. (Len(ActionSpace) - 1))
          => (ret'.error # "none"
              /\ current_step' = current_step /\ state' = state)]_vars

\* C25: after every step threat level, opportunity and social pressure lie
\* in [0,1] and differ from their values before the step by at most 0.1, and
\* time pressure is not lower than before the step and not above 1.0.
C25_BoundedWalk ==
    [][(ret'.op = "step" /\ ret'.error = "none")
          => LET old == state.environment
                 new == state'.environment
             IN  /\ \A k \in {"threat_level", "opportunity", "social_pressure"} :
                       /\ 0 <= new[k] /\ new[k] <= 1000000000
                       /\ Abs(new[k] - old[k]) <= 100000000
                 /\ new.time_pressure >= old.time_pressure
                 /\ new.time_pressure <= 1000000000]_vars

\* Two steps have walked the threat level from 0.1 down to the floor
C25_Witness ==
    /\ ret.op = "step"
    /\ ret.error = "none"
    /\ current_step = 2
    /\ state.environment.threat_level = 0
    /\ state.environment.time_pressure = 200000000

\* C13: for each of the ten actions, a step whose success draw failed lowers
\* energy and happiness (unless at their floor 0.1) and raises stress
\* (unless 1.0); a step whose draw succeeded raises happiness and reputation
\* (unless 1.0) and lowers stress (unless 0).
C13_OutcomeEffects ==
    [][(ret'.op = "step" /\ ret'.error = "none")
          => IF ret'.outcome = OutcomeTable(ret'.action, TRUE).label
                THEN /\ state.happiness < 1000
                            => state'.happiness > state.happiness
                     /\ state.reputation < 1000
                            => state'.reputation > state.reputation
                     /\ state.stress > 0 => state'.stress < state.stress
                ELSE /\ state.energy > 100 => state'.energy < state.energy
                     /\ state.happiness > 100
                            => state'.happiness < state.happiness
                     /\ state.stress < 1000
                            => state'.stress > state.stress]_vars

(***************************************************************************)
(* Claims about MirageEnv (SpecMirage) and PvPArenaEnv (SpecPvP)           *)
(***************************************************************************)
\* C9: after any sequence of steps, reset leaves the environment as a newly
\* constructed one for the profile originally supplied: step counter 0, done
\* cleared, and the state built from the original baseline values.
C9_ResetRestoresBaseline ==
    m_ret.op = "reset"
        => /\ m_current_step = 0
           /\ m_done = FALSE
           /\ m_state = build_state(m_orig)

\* C10: in every environment, the duel included, a step returns done = TRUE
\* exactly when the steps taken since reset have reached the horizon (the duel
\* has no health scalar), so an episode ends within horizon steps.
C10_DoneIffHorizon ==
    (p_ret.op = "step" /\ p_ret.error = "none")
        => (p_ret.done <=> p_steps >= PvPHorizon)

(***************************************************************************)
(* Claims about compute_returns_and_advantages (SpecGae)                   *)
(***************************************************************************)
\* rewards[t] + ... + rewards[last], for every t
RECURSIVE RewardToGo(_, _)
RewardToGo(rewards, t) ==
    IF t > Len(rewards) THEN <<>>
    ELSE LET rest == RewardToGo(rewards, t + 1)
         IN  <<RAdd(rewards[t], IF rest = <<>> THEN RInt(0) ELSE rest[1])>> \o rest

\* The Monte-Carlo case: gamma = 1, lambda = 1, every value estimate 0,
\* bootstrap value 0, done set on the last step only
MonteCarloCase(in) ==
    /\ Len(in.rewards) >= 1
    /\ in.gamma = <<RInt(1)>>
    /\ in.gae_lambda = RInt(1)
    /\ in.next_value = RInt(0)
    /\ \A t \in 1 .. Len(in.values) : in.values[t] = RInt(0)
    /\ \A t \in 1 .. Len(in.dones) : in.dones[t] <=> (t = Len(in.dones))

\* C7: in the Monte-Carlo case advantages = returns = the reward-to-go sums
\* ([3, 2, 1] for rewards [1, 1, 1]).
C7_MonteCarloReduction ==
    (gae_out # <<>> /\ MonteCarloCase(gae_in))
        => /\ gae_out[1].advantages = RewardToGo(gae_in.rewards, 1)
           /\ gae_out[1].returns = RewardToGo(gae_in.rewards, 1)

\* The backward recursion of section 4.5 of the specification: next_value is
\* the bootstrap value only at the last index and values[t+1] otherwise, and
\* the mask is 0 exactly when dones[t] is set.
RECURSIVE StandardGae(_, _, _, _, _, _, _)
StandardGae(t, rewards, values, bootstrap, dones, gamma, lambda) ==
    IF t > Len(rewards)
        THEN [gae |-> RInt(0), returns |-> <<>>, advantages |-> <<>>]
    ELSE
        LET rest == StandardGae(t + 1, rewards, values, bootstrap, dones, gamma, lambda)
            next_value == IF t = Len(rewards) THEN bootstrap ELSE values[t + 1]
            next_nonterm == NonTerminal(dones[t])
            delta == RSub(RAdd(rewards[t], RMul(RMul(gamma, next_value), next_nonterm)),
                          values[t])
            gae == RAdd(delta, RMul(RMul(RMul(gamma, lambda), next_nonterm), rest.gae))
        IN  [gae |-> gae,
             returns |-> <<RAdd(gae, values[t])>> \o rest.returns,
             advantages |-> <<gae>> \o rest.advantages]

\* C8: for every input the result is that of the recursion of section 4.5
\* (stated for a discount the caller passes as a nonzero number).
C8_StandardRecursion ==
    (gae_out # <<>> /\ gae_in.gamma \notin {<<>>, <<RInt(0)>>})
        => LET ref == StandardGae(1, gae_in.rewards, gae_in.values,
                                  gae_in.next_value, gae_in.dones,
                                  gae_in.gamma[1], gae_in.gae_lambda)
           IN  /\ gae_out[1].advantages = ref.advantages
               /\ gae_out[1].returns = ref.returns

\* C26: the discount factor the caller passes is the one used, gamma = 0
\* included, for which advantages[t] = rewards[t] - values[t] for every t.
C26_CallerGammaUsed ==
    (gae_out # <<>> /\ gae_in.gamma = <<RInt(0)>>)
        => \A t \in 1..Len(gae_in.rewards) :
              gae_out[1].advantages[t] = RSub(gae_in.rewards[t], gae_in.values[t])

====
